---- MODULE Spec2Model ----
(***************************************************************************)
(* Model of claude-collab: the WebSocket relay server (src/server/relay.ts *)
(* and src/server/database.ts), the TUI client (index.ts) and the client's *)
(* WebSocket wrapper (src/client/api/websocket-client.ts).                 *)
(*                                                                         *)
(* The relay is a single-threaded Node.js event loop: every handler runs   *)
(* to completion, so each handler is one action.  The variable `out' holds *)
(* the ordered trace of the externally visible effects (database writes    *)
(* and socket sends) of the handler that ran last, `ev' the event it       *)
(* handled.                                                                *)
(***************************************************************************)
EXTENDS Integers, Sequences, FiniteSets, TLC

VARIABLES
    sessions,     \* relay.ts `sessions': sessionId -> Session (in-memory registry)
    conns,        \* server-side WebSocket connections with their closure variables
    cur,          \* per client process: the connection it currently uses (0: none)
    now,          \* Date.now() in ms
    sweepDue,     \* the 5 s interval timer has fired and its callback is pending
    messages,     \* database table `messages' (rows in insertion order)
    tool_results, \* database table `tool_results'
    published,    \* history: the durable rows whose broadcast was sent, per socket
    out,          \* effect trace of the last handler
    ev,           \* the event handled by the last step
    rin,          \* Repairer: the entry sequence given to validateToolMessages
    rout,         \* Repairer: its result (NotRun before the call)
    hasLock,      \* TUIClient.hasLock, per client process
    pendingInput, \* TUIClient.pendingInput
    initialSyncDone, \* TUIClient.initialSyncDone
    conversation, \* TUIClient.conversation: the local conversation cache
    phase,        \* "new", "starting" (start() awaits connect), "ready"
    reconnectAttempts, \* WebSocketClient.reconnectAttempts
    resync,       \* the sync.request of a 'reconnected' event is unanswered
    inbox,        \* messages received on the live socket, not yet dispatched
    calls,        \* the callAnthropicAPI invocations of the client, in order
    sent          \* what the client has sent and shown, in order

netVars == <<conns, cur>>
timeVars == <<now, sweepDue>>
dbVars == <<messages, tool_results, published>>
serverVars == <<sessions, netVars, timeVars, dbVars, out, ev>>
repVars == <<rin, rout>>
tuiVars == <<hasLock, pendingInput, initialSyncDone, conversation, phase,
             reconnectAttempts, resync, inbox, calls, sent>>

clientVars == <<repVars, tuiVars>>

vars == <<serverVars, clientVars>>

-----------------------------------------------------------------------------
(* Bounds of the model *)

MaxConns == 3
MaxTicks == 7
MaxLog == 2
MaxEntries == 3
MaxCalls == 2
MaxInbox == 2

(* Program constants *)

LOCK_TIMEOUT_MS == 30000
SWEEP_INTERVAL_MS == 5000
maxReconnectAttempts == 10

-----------------------------------------------------------------------------
(* Values *)

NULL == "null"
NoTime == 0 - 1
DB == 0

ClientIds == {"a", "b"}
SessionIds == {"s1"}

\* Each client process is started with one username and one session id
\* (ClientConfig); the clientId is a uuid made in the constructor.
UsernameOf(p) == IF p = "a" THEN "Alice" ELSE "Bob"
SessionOf(p) == "s1"

ConnIds == 1..MaxConns

\* The server process starts at a non-zero wall-clock time; the sweep timer
\* fires every SWEEP_INTERVAL_MS after that.
ServerStart == SWEEP_INTERVAL_MS
TimeStep == SWEEP_INTERVAL_MS \div 2
LongStep == LOCK_TIMEOUT_MS + SWEEP_INTERVAL_MS
MaxTime == ServerStart + MaxTicks * SWEEP_INTERVAL_MS

-----------------------------------------------------------------------------
(* JavaScript values carried as message content.  A value is a record      *)
(* [t, s, b, q]: t its type ("str", "num", "arr", "obj"), s its text, b    *)
(* its content blocks (arrays), and for a string q the type of the JSON    *)
(* value its characters spell ("" when they are not valid JSON).           *)

JsonNumberTexts == {"42"}

Str(s) == [t |-> "str", s |-> s, b |-> <<>>,
           q |-> IF s \in JsonNumberTexts THEN "num" ELSE ""]
Arr(b) == [t |-> "arr", s |-> "", b |-> b, q |-> ""]
Obj(s) == [t |-> "obj", s |-> s, b |-> <<>>, q |-> ""]

\* JSON.stringify of an array or an object: the string spelling it
JSONstringify(v) == [t |-> "str", s |-> v.s, b |-> v.b, q |-> v.t]

\* JSON.parse succeeds on a string exactly when it spells a JSON value
JSONparses(x) == x.t = "str" /\ x.q # ""
JSONparse(x) == [t |-> x.q, s |-> x.s, b |-> x.b, q |-> ""]

TextBlock == [type |-> "text", id |-> ""]
ToolUse(i) == [type |-> "tool_use", id |-> i]
ToolResult(i) == [type |-> "tool_result", id |-> i]

\* What a user types, what the model answers, what a tool returns
UserTexts == {"hello", "42"}
AssistantContents == {<<TextBlock>>, <<TextBlock, ToolUse("A")>>}
ToolUseIds == {"A"}

-----------------------------------------------------------------------------
(* session.clients is a JavaScript Map: insertion-ordered, keyed by clientId *)

MapHas(m, k) == \E i \in 1..Len(m) : m[i].clientId = k
MapIndex(m, k) == CHOOSE i \in 1..Len(m) : m[i].clientId = k
MapGet(m, k) == m[MapIndex(m, k)]
MapSet(m, k, v) ==
    IF MapHas(m, k) THEN [m EXCEPT ![MapIndex(m, k)] = v] ELSE Append(m, v)
MapDelete(m, k) == SelectSeq(m, LAMBDA e : e.clientId # k)
MapKeys(m) == {m[i].clientId : i \in 1..Len(m)}

\* ws.readyState === WebSocket.OPEN, in connection table cs
ReadyOpen(cs, k) == cs[k].st = "open"

\* The condition under which broadcast sends to one roster entry
BroadcastTarget(cs, c, excludeClientId) ==
    c.clientId # excludeClientId /\ ReadyOpen(cs, c.ws)

RECURSIVE SendEach(_, _, _, _)
SendEach(cs, clients, message, excludeClientId) ==
    IF clients = <<>> THEN <<>>
    ELSE LET c == Head(clients)
             rest == SendEach(cs, Tail(clients), message, excludeClientId)
         IN  IF BroadcastTarget(cs, c, excludeClientId)
             THEN <<[to |-> c.ws, msg |-> message]>> \o rest
             ELSE rest

\* broadcast(session, message, excludeClientId?); NULL: no client excluded
broadcast(cs, session, message, excludeClientId) ==
    SendEach(cs, session.clients, message, excludeClientId)

\* ws.send(JSON.stringify(message)) on one socket
SendTo(k, message) == <<[to |-> k, msg |-> message]>>

NewSession(sid, t) ==
    [id |-> sid, clients |-> <<>>, lockHolder |-> NULL, lockUsername |-> NULL,
     lockGrantedAt |-> NoTime, lastActivity |-> t]

Event(type, k, sid, cid) ==
    [type |-> type, conn |-> k, sessionId |-> sid, clientId |-> cid]

-----------------------------------------------------------------------------
NotRun == <<[role |-> "none", content |-> Str("")]>>

InitServer ==
    /\ sessions = [s \in {} |-> NULL]
    /\ conns = [k \in ConnIds |->
                  [st |-> "free", owner |-> NULL, sessionId |-> NULL, clientId |-> NULL]]
    /\ cur = [p \in ClientIds |-> 0]
    /\ now = ServerStart
    /\ sweepDue = FALSE
    /\ messages = <<>>
    /\ tool_results = <<>>
    /\ published = {}
    /\ out = <<>>
    /\ ev = Event("init", 0, NULL, NULL)

InitRepairer ==
    /\ rin = <<>>
    /\ rout = NotRun

InitTui ==
    /\ hasLock = [p \in ClientIds |-> FALSE]
    /\ pendingInput = [p \in ClientIds |-> NULL]
    /\ initialSyncDone = [p \in ClientIds |-> FALSE]
    /\ conversation = [p \in ClientIds |-> <<>>]
    /\ phase = [p \in ClientIds |-> "new"]
    /\ reconnectAttempts = [p \in ClientIds |-> 0]
    /\ resync = [p \in ClientIds |-> FALSE]
    /\ inbox = [p \in ClientIds |-> <<>>]
    /\ calls = [p \in ClientIds |-> <<>>]
    /\ sent = [p \in ClientIds |-> <<>>]

Init == InitServer /\ InitRepairer /\ InitTui

-----------------------------------------------------------------------------
(* Registry updates *)

HasSession(sid) == sid \in DOMAIN sessions
PutSession(ss, sid, session) ==
    [s \in DOMAIN ss \cup {sid} |-> IF s = sid THEN session ELSE ss[s]]
DropSession(ss, sid) == [s \in DOMAIN ss \ {sid} |-> ss[s]]

\* The messages an honest client process p sends carry its own ids
Msg(type, p) ==
    [type |-> type, sessionId |-> SessionOf(p), clientId |-> p,
     username |-> UsernameOf(p)]

\* Connection k is open on both sides and its client.connect has been handled:
\* the client sends client.connect first, in the socket's open handler
Registered(k) ==
    /\ ReadyOpen(conns, k)
    /\ conns[k].clientId # NULL
    /\ cur[conns[k].owner] = k

-----------------------------------------------------------------------------
(* wss.on('connection'): a client process opens a socket *)

NextConn == CHOOSE k \in ConnIds : conns[k].st = "free" /\ \A j \in 1..(k-1) : conns[j].st # "free"

ConnOpen(p, limit) ==
    /\ cur[p] = 0
    /\ \E k \in ConnIds : conns[k].st = "free"
    /\ NextConn <= limit
    /\ LET k == NextConn
       IN  /\ conns' = [conns EXCEPT ![k] = [st |-> "open", owner |-> p,
                                            sessionId |-> NULL, clientId |-> NULL]]
           /\ cur' = [cur EXCEPT ![p] = k]
           /\ ev' = Event("connection", k, NULL, NULL)
    /\ out' = <<>>
    /\ UNCHANGED <<sessions, timeVars, dbVars>>

\* The client side of a socket goes away (network loss, process killed); the
\* server has not seen the close yet
ClientDrop(p) ==
    /\ cur[p] # 0
    /\ cur' = [cur EXCEPT ![p] = 0]
    /\ ev' = Event("drop", cur[p], NULL, NULL)
    /\ out' = <<>>
    /\ UNCHANGED <<sessions, conns, timeVars, dbVars>>

-----------------------------------------------------------------------------
(* handleClientConnect *)

\* handleClientConnect(ws, msg) for the socket of connection k
ClientConnect(k, msg) ==
    /\ LET sid == msg.sessionId
           cid == msg.clientId
           created == ~HasSession(sid)
           session0 == IF created THEN NewSession(sid, now) ELSE sessions[sid]
           session == [session0 EXCEPT
                          !.clients = MapSet(@, cid, [clientId |-> cid,
                                                      username |-> msg.username,
                                                      ws |-> k]),
                          !.lastActivity = now]
       IN  /\ conns' = [conns EXCEPT ![k].sessionId = sid, ![k].clientId = cid]
           /\ sessions' = PutSession(sessions, sid, session)
           /\ out' = (IF created
                      THEN <<[to |-> DB, msg |-> [type |-> "db.createSession",
                                                  sessionId |-> sid]]>>
                      ELSE <<>>)
                     \o SendTo(k, [type |-> "connected", clientId |-> cid,
                                   sessionId |-> sid])
                     \o broadcast(conns, session,
                                  [type |-> "participant.joined",
                                   username |-> msg.username, clientId |-> cid], cid)
           /\ ev' = Event("client.connect", k, sid, cid)
    /\ UNCHANGED <<cur, timeVars, dbVars>>

\* The client's open handler sends client.connect with its own ids, once
HandleClientConnect(k) ==
    /\ ReadyOpen(conns, k)
    /\ conns[k].clientId = NULL
    /\ cur[conns[k].owner] = k
    /\ ClientConnect(k, Msg("client.connect", conns[k].owner))

-----------------------------------------------------------------------------
(* handleLockRequest *)

\* relay.ts:262  session.lockHolder === null || session.lockHolder === msg.clientId
LockAvailable_Always(session, msg) == TRUE

LockAvailable(session, msg) ==
    session.lockHolder = NULL \/ session.lockHolder = msg.clientId

handleLockRequest(cs, ss, msg, t) ==
    IF msg.sessionId \notin DOMAIN ss THEN [s |-> ss, o |-> <<>>]
    ELSE LET session == ss[msg.sessionId]
         IN  IF LockAvailable(session, msg)
             THEN LET granted == [session EXCEPT !.lockHolder = msg.clientId,
                                                 !.lockUsername = msg.username,
                                                 !.lockGrantedAt = t,
                                                 !.lastActivity = t]
                  IN  [s |-> PutSession(ss, msg.sessionId, granted),
                       o |-> broadcast(cs, granted,
                                       [type |-> "lock.granted",
                                        clientId |-> msg.clientId,
                                        username |-> msg.username], NULL)]
             ELSE [s |-> ss,
                   o |-> IF MapHas(session.clients, msg.clientId)
                         THEN SendTo(MapGet(session.clients, msg.clientId).ws,
                                     [type |-> "lock.denied",
                                      holder |-> session.lockUsername,
                                      reason |-> "lock_held"])
                         ELSE <<>>]

HandleLockRequest(k) ==
    /\ Registered(k)
    /\ LET msg == Msg("lock.request", conns[k].owner)
           r == handleLockRequest(conns, sessions, msg, now)
       IN  /\ sessions' = r.s
           /\ out' = r.o
           /\ ev' = Event("lock.request", k, msg.sessionId, msg.clientId)
    /\ UNCHANGED <<netVars, timeVars, dbVars>>

-----------------------------------------------------------------------------
(* handleLockRelease *)

ReleaseAllowed_Anyone(session, msg) == TRUE

\* relay.ts:293  only the holder's release is acted on
ReleaseAllowed(session, msg) == session.lockHolder = msg.clientId

\* the variant with a wait-list: the release hands the lock to the next
\* participant of the roster
handleLockRelease_HandOver(cs, ss, msg) ==
    IF msg.sessionId \notin DOMAIN ss THEN [s |-> ss, o |-> <<>>]
    ELSE LET session == ss[msg.sessionId]
             waiting == SelectSeq(session.clients,
                                  LAMBDA c : c.clientId # msg.clientId)
         IN  IF ReleaseAllowed(session, msg)
             THEN LET released ==
                          IF waiting = <<>>
                          THEN [session EXCEPT !.lockHolder = NULL,
                                               !.lockUsername = NULL,
                                               !.lockGrantedAt = NoTime]
                          ELSE [session EXCEPT
                                   !.lockHolder = waiting[1].clientId,
                                   !.lockUsername = waiting[1].username]
                  IN  [s |-> PutSession(ss, msg.sessionId, released),
                       o |-> broadcast(cs, released,
                                       [type |-> "lock.released", reason |-> NULL],
                                       NULL)]
             ELSE [s |-> ss, o |-> <<>>]

handleLockRelease(cs, ss, msg) ==
    IF msg.sessionId \notin DOMAIN ss THEN [s |-> ss, o |-> <<>>]
    ELSE LET session == ss[msg.sessionId]
         IN  IF ReleaseAllowed(session, msg)
             THEN LET released == [session EXCEPT !.lockHolder = NULL,
                                                  !.lockUsername = NULL,
                                                  !.lockGrantedAt = NoTime]
                  IN  [s |-> PutSession(ss, msg.sessionId, released),
                       o |-> broadcast(cs, released,
                                       [type |-> "lock.released", reason |-> NULL],
                                       NULL)]
             ELSE [s |-> ss, o |-> <<>>]

HandleLockRelease(k) ==
    /\ Registered(k)
    /\ LET msg == Msg("lock.release", conns[k].owner)
           r == handleLockRelease(conns, sessions, msg)
       IN  /\ sessions' = r.s
           /\ out' = r.o
           /\ ev' = Event("lock.release", k, msg.sessionId, msg.clientId)
    /\ UNCHANGED <<netVars, timeVars, dbVars>>

-----------------------------------------------------------------------------
(* handleClientDisconnect, called by ws.on('close') with the closure's ids *)

\* relay.ts:430  the lock is released when the removed client held it
ReleaseOnDisconnect(session, clientId) == session.lockHolder = clientId

RosterEmpty_Never(session) == FALSE

\* relay.ts:451  the session is cleaned up when its last client has left
RosterEmpty(session) == session.clients = <<>>

\* the variant without the roster lookup of relay.ts:423-424
handleClientDisconnect_Unchecked(cs, ss, sessionId, clientId) ==
    IF sessionId \notin DOMAIN ss THEN [s |-> ss, o |-> <<>>]
    ELSE LET session == ss[sessionId]
         IN
             LET username == IF MapHas(session.clients, clientId)
                             THEN MapGet(session.clients, clientId).username
                             ELSE "Anonymous"
                 removed == [session EXCEPT !.clients = MapDelete(@, clientId)]
                 release == ReleaseOnDisconnect(removed, clientId)
                 after == IF release
                          THEN [removed EXCEPT !.lockHolder = NULL,
                                               !.lockUsername = NULL,
                                               !.lockGrantedAt = NoTime]
                          ELSE removed
                 o1 == IF release
                       THEN broadcast(cs, after,
                                      [type |-> "lock.released",
                                       reason |-> "holder_disconnected"], NULL)
                       ELSE <<>>
                 o2 == broadcast(cs, after,
                                 [type |-> "participant.left",
                                  username |-> username, clientId |-> clientId],
                                 NULL)
             IN  [s |-> IF RosterEmpty(after)
                        THEN DropSession(ss, sessionId)
                        ELSE PutSession(ss, sessionId, after),
                  o |-> o1 \o o2]

handleClientDisconnect(cs, ss, sessionId, clientId) ==
    IF sessionId \notin DOMAIN ss THEN [s |-> ss, o |-> <<>>]
    ELSE LET session == ss[sessionId]
         IN  IF ~MapHas(session.clients, clientId) THEN [s |-> ss, o |-> <<>>]
             ELSE
             LET username == MapGet(session.clients, clientId).username
                 removed == [session EXCEPT !.clients = MapDelete(@, clientId)]
                 release == ReleaseOnDisconnect(removed, clientId)
                 after == IF release
                          THEN [removed EXCEPT !.lockHolder = NULL,
                                               !.lockUsername = NULL,
                                               !.lockGrantedAt = NoTime]
                          ELSE removed
                 o1 == IF release
                       THEN broadcast(cs, after,
                                      [type |-> "lock.released",
                                       reason |-> "holder_disconnected"], NULL)
                       ELSE <<>>
                 o2 == broadcast(cs, after,
                                 [type |-> "participant.left",
                                  username |-> username, clientId |-> clientId],
                                 NULL)
             IN  [s |-> IF RosterEmpty(after)
                        THEN DropSession(ss, sessionId)
                        ELSE PutSession(ss, sessionId, after),
                  o |-> o1 \o o2]

\* ws.on('close'): the server learns that connection k is gone
WsClose(k) ==
    /\ ReadyOpen(conns, k)
    /\ cur[conns[k].owner] # k
    /\ conns' = [conns EXCEPT ![k].st = "closed"]
    /\ LET r == IF conns[k].sessionId # NULL /\ conns[k].clientId # NULL
                THEN handleClientDisconnect(conns', sessions,
                                            conns[k].sessionId, conns[k].clientId)
                ELSE [s |-> sessions, o |-> <<>>]
       IN  /\ sessions' = r.s
           /\ out' = r.o
    /\ ev' = Event("close", k, conns[k].sessionId, conns[k].clientId)
    /\ UNCHANGED <<cur, timeVars, dbVars>>

-----------------------------------------------------------------------------
(* setInterval(..., 5000): the periodic lock timeout check *)

\* relay.ts:82-83
LockExpired_ByActivity(session, t) ==
    /\ session.lockHolder # NULL
    /\ session.lockGrantedAt # NoTime /\ session.lockGrantedAt # 0
    /\ t - session.lastActivity > LOCK_TIMEOUT_MS

LockExpired(session, t) ==
    /\ session.lockHolder # NULL
    /\ session.lockGrantedAt # NoTime /\ session.lockGrantedAt # 0
    /\ t - session.lockGrantedAt > LOCK_TIMEOUT_MS

SweepSession(session, t) ==
    IF LockExpired(session, t)
    THEN [session EXCEPT !.lockHolder = NULL, !.lockUsername = NULL,
                         !.lockGrantedAt = NoTime]
    ELSE session

RECURSIVE SweepOut(_, _, _, _)
SweepOut(cs, ss, sids, t) ==
    IF sids = {} THEN <<>>
    ELSE LET sid == CHOOSE x \in sids : TRUE
         IN  (IF LockExpired(ss[sid], t)
              THEN broadcast(cs, SweepSession(ss[sid], t),
                             [type |-> "lock.released", reason |-> "timeout"], NULL)
              ELSE <<>>)
             \o SweepOut(cs, ss, sids \ {sid}, t)

Sweep ==
    /\ sweepDue
    /\ sweepDue' = FALSE
    /\ sessions' = [sid \in DOMAIN sessions |-> SweepSession(sessions[sid], now)]
    /\ out' = SweepOut(conns, sessions, DOMAIN sessions, now)
    /\ ev' = Event("sweep", 0, NULL, NULL)
    /\ UNCHANGED <<netVars, now, dbVars>>

\* Time passes; the interval timer fires at every multiple of SWEEP_INTERVAL_MS
Tick(d) ==
    /\ ~sweepDue
    /\ now + d <= MaxTime
    /\ now' = now + d
    /\ sweepDue' = ((now + d - ServerStart) % SWEEP_INTERVAL_MS = 0)
    /\ out' = <<>>
    /\ ev' = Event("tick", 0, NULL, NULL)
    /\ UNCHANGED <<sessions, netVars, dbVars>>

-----------------------------------------------------------------------------
(* The registry and the turn lock: connections, lock requests and releases,  *)
(* disconnects and the timeout sweep                                         *)

NextLock ==
    \/ \E p \in ClientIds : ConnOpen(p, MaxConns) /\ UNCHANGED clientVars
    \/ \E p \in ClientIds : ClientDrop(p) /\ UNCHANGED clientVars
    \/ \E k \in ConnIds : HandleClientConnect(k) /\ UNCHANGED clientVars
    \/ \E k \in ConnIds : HandleLockRequest(k) /\ UNCHANGED clientVars
    \/ \E k \in ConnIds : HandleLockRelease(k) /\ UNCHANGED clientVars
    \/ \E k \in ConnIds : WsClose(k) /\ UNCHANGED clientVars
    \/ Sweep /\ UNCHANGED clientVars
    \/ Tick(LongStep) /\ UNCHANGED clientVars

SpecLock == Init /\ [][NextLock]_vars

(* The timeout sweep at the granularity of half a sweep interval *)

NextTimeout ==
    \/ \E p \in ClientIds : ConnOpen(p, Cardinality(ClientIds)) /\ UNCHANGED clientVars
    \/ \E k \in ConnIds : HandleClientConnect(k) /\ UNCHANGED clientVars
    \/ \E k \in ConnIds : HandleLockRequest(k) /\ UNCHANGED clientVars
    \/ \E k \in ConnIds : HandleLockRelease(k) /\ UNCHANGED clientVars
    \/ \E p \in ClientIds : ClientDrop(p) /\ UNCHANGED clientVars
    \/ \E k \in ConnIds : WsClose(k) /\ UNCHANGED clientVars
    \/ Sweep /\ UNCHANGED clientVars
    \/ Tick(TimeStep) /\ UNCHANGED clientVars

SpecTimeout == Init /\ [][NextTimeout]_vars

-----------------------------------------------------------------------------
(* SessionDatabase (database.ts) *)

\* the variant that overwrites the newest row (INSERT OR REPLACE on a reused id)
saveMessage_Replace(table, sessionId, message, t) ==
    LET row == [id |-> IF table = <<>> THEN 1 ELSE Len(table),
                session_id |-> sessionId,
                role |-> message.role,
                content |-> IF message.content.t = "str" THEN message.content
                            ELSE JSONstringify(message.content),
                author_username |-> message.author_username,
                timestamp |-> t]
    IN  IF table = <<>> THEN <<row>> ELSE [table EXCEPT ![Len(table)] = row]

\* saveMessage: INSERT INTO messages; ids are unique
saveMessage(table, sessionId, message, t) ==
    Append(table,
           [id |-> Len(table) + 1,
            session_id |-> sessionId,
            role |-> message.role,
            content |-> IF message.content.t = "str" THEN message.content
                        ELSE JSONstringify(message.content),
            author_username |-> message.author_username,
            timestamp |-> t])

\* ORDER BY timestamp ASC over the rows in rowid (insertion) order
RECURSIVE InsertByTimestamp(_, _)
InsertByTimestamp(sorted, row) ==
    IF sorted = <<>> THEN <<row>>
    ELSE IF sorted[Len(sorted)].timestamp <= row.timestamp THEN Append(sorted, row)
    ELSE Append(InsertByTimestamp(SubSeq(sorted, 1, Len(sorted) - 1), row),
                sorted[Len(sorted)])

OrderByTimestamp_Reversed(rows) == [i \in 1..Len(rows) |-> rows[Len(rows) + 1 - i]]

RECURSIVE OrderByTimestamp(_)
OrderByTimestamp(rows) ==
    IF rows = <<>> THEN <<>>
    ELSE InsertByTimestamp(OrderByTimestamp(SubSeq(rows, 1, Len(rows) - 1)),
                           rows[Len(rows)])

\* getMessages: the session's rows, each content JSON.parse'd when it parses
RowToMessage(row) ==
    [id |-> row.id, role |-> row.role,
     content |-> IF JSONparses(row.content) THEN JSONparse(row.content)
                 ELSE row.content,
     author_username |-> row.author_username, timestamp |-> row.timestamp]

RECURSIVE MapRows(_)
MapRows(rows) ==
    IF rows = <<>> THEN <<>> ELSE <<RowToMessage(Head(rows))>> \o MapRows(Tail(rows))

getMessages_DropLast(table, sessionId) ==
    LET all == MapRows(OrderByTimestamp(SelectSeq(table, LAMBDA r : r.session_id = sessionId)))
    IN  SubSeq(all, 1, Len(all) - 1)

getMessages(table, sessionId) ==
    MapRows(OrderByTimestamp(SelectSeq(table, LAMBDA r : r.session_id = sessionId)))

\* saveToolResult: INSERT INTO tool_results
saveToolResult(table, sessionId, toolUseId, content, clientId, t) ==
    Append(table,
           [id |-> Len(table) + 1, session_id |-> sessionId,
            tool_use_id |-> toolUseId, content |-> JSONstringify(content),
            client_id |-> clientId, timestamp |-> t])

DbWrite(tableName, row) ==
    <<[to |-> DB, msg |-> [type |-> "db.insert", table |-> tableName, row |-> row]]>>

-----------------------------------------------------------------------------
(* handleUserMessage, handleAssistantChunk, handleAssistantComplete *)

\* relay.ts:312, 342, 362  "Verify lock holder"
IsLockHolder_Anyone(session, msg) == TRUE

IsLockHolder(session, msg) == session.lockHolder = msg.clientId

\* relay.ts:319-332, 369-380, 405-414: db.save...() runs before broadcast()
PersistThenPublish_Reversed(write, sends) == sends \o write

PersistThenPublish(write, sends) == write \o sends

Unchanged(ss, m, tr) == [s |-> ss, o |-> <<>>, m |-> m, tr |-> tr]

handleUserMessage(cs, ss, m, tr, msg, t) ==
    IF msg.sessionId \notin DOMAIN ss THEN Unchanged(ss, m, tr)
    ELSE LET session == ss[msg.sessionId]
         IN  IF ~IsLockHolder(session, msg) THEN Unchanged(ss, m, tr)
             ELSE
             LET active == [session EXCEPT !.lastActivity = t]
                 m2 == saveMessage(m, msg.sessionId,
                                   [role |-> "user", content |-> msg.content,
                                    author_username |-> msg.username], t)
             IN  [s |-> PutSession(ss, msg.sessionId, active),
                  o |-> PersistThenPublish(
                            DbWrite("messages", m2[Len(m2)]),
                            broadcast(cs, active,
                                      [type |-> "user.message.broadcast",
                                       username |-> msg.username,
                                       content |-> msg.content,
                                       timestamp |-> t], msg.clientId)),
                  m |-> m2, tr |-> tr]

handleAssistantChunk(cs, ss, m, tr, msg, t) ==
    IF msg.sessionId \notin DOMAIN ss THEN Unchanged(ss, m, tr)
    ELSE LET session == ss[msg.sessionId]
         IN  IF ~IsLockHolder(session, msg) THEN Unchanged(ss, m, tr)
             ELSE
             LET active == [session EXCEPT !.lastActivity = t]
             IN  [s |-> PutSession(ss, msg.sessionId, active),
                  o |-> broadcast(cs, active,
                                  [type |-> "assistant.streaming",
                                   delta |-> msg.delta,
                                   sourceClientId |-> msg.clientId], msg.clientId),
                  m |-> m, tr |-> tr]

handleAssistantComplete(cs, ss, m, tr, msg, t) ==
    IF msg.sessionId \notin DOMAIN ss THEN Unchanged(ss, m, tr)
    ELSE LET session == ss[msg.sessionId]
         IN  IF ~IsLockHolder(session, msg) THEN Unchanged(ss, m, tr)
             ELSE
             LET active == [session EXCEPT !.lastActivity = t]
                 m2 == saveMessage(m, msg.sessionId,
                                   [role |-> "assistant",
                                    content |-> msg.message.content,
                                    author_username |-> NULL], t)
             IN  [s |-> PutSession(ss, msg.sessionId, active),
                  o |-> PersistThenPublish(
                            DbWrite("messages", m2[Len(m2)]),
                            broadcast(cs, active,
                                      [type |-> "assistant.complete.broadcast",
                                       message |-> msg.message], msg.clientId)),
                  m |-> m2, tr |-> tr]

-----------------------------------------------------------------------------
(* handleToolExecute, handleToolResult *)

handleToolExecute(cs, ss, m, tr, msg) ==
    IF msg.sessionId \notin DOMAIN ss THEN Unchanged(ss, m, tr)
    ELSE [s |-> ss,
          o |-> broadcast(cs, ss[msg.sessionId],
                          [type |-> "tool.executing", toolUseId |-> msg.toolUseId,
                           toolName |-> msg.toolName, input |-> msg.input,
                           executingClientId |-> msg.clientId], NULL),
          m |-> m, tr |-> tr]

handleToolResult(cs, ss, m, tr, msg, t) ==
    IF msg.sessionId \notin DOMAIN ss THEN Unchanged(ss, m, tr)
    ELSE LET tr2 == saveToolResult(tr, msg.sessionId, msg.toolUseId, msg.content,
                                   msg.clientId, t)
         IN  [s |-> ss,
              o |-> PersistThenPublish(
                        DbWrite("tool_results", tr2[Len(tr2)]),
                        broadcast(cs, ss[msg.sessionId],
                                  [type |-> "tool.result.broadcast",
                                   toolUseId |-> msg.toolUseId,
                                   content |-> msg.content,
                                   isError |-> msg.isError], NULL)),
              m |-> m, tr |-> tr2]

-----------------------------------------------------------------------------
(* handleSyncRequest *)

RECURSIVE Participants(_)
Participants(clients) ==
    IF clients = <<>> THEN <<>>
    ELSE <<[clientId |-> Head(clients).clientId, username |-> Head(clients).username]>>
         \o Participants(Tail(clients))

handleSyncRequest(ss, m, k, msg) ==
    IF msg.sessionId \notin DOMAIN ss
    THEN SendTo(k, [type |-> "error", message |-> "Session not found"])
    ELSE LET session == ss[msg.sessionId]
         IN  SendTo(k, [type |-> "sync.state", sessionId |-> msg.sessionId,
                        messages |-> getMessages(m, msg.sessionId),
                        participants |-> Participants(session.clients),
                        lockHolder |-> session.lockHolder,
                        lockUsername |-> session.lockUsername])

-----------------------------------------------------------------------------
(* The message handlers as actions: ws.on('message') dispatches on msg.type *)

DurableBroadcasts ==
    {"user.message.broadcast", "assistant.complete.broadcast", "tool.result.broadcast"}

TableOf(type) == IF type = "tool.result.broadcast" THEN "tool_results" ELSE "messages"

\* The rows whose broadcast the handler has just sent, with the socket
Published(o, m, tr) ==
    {[to |-> o[j].to,
      table |-> TableOf(o[j].msg.type),
      id |-> IF o[j].msg.type = "tool.result.broadcast" THEN Len(tr) ELSE Len(m)] :
        j \in {i \in 1..Len(o) : o[i].to # DB /\ o[i].msg.type \in DurableBroadcasts}}

Apply(r, k, type) ==
    /\ Len(r.m) + Len(r.tr) <= MaxLog
    /\ sessions' = r.s
    /\ messages' = r.m
    /\ tool_results' = r.tr
    /\ out' = r.o
    /\ published' = published \cup Published(r.o, r.m, r.tr)
    /\ ev' = Event(type, k, SessionOf(conns[k].owner), conns[k].owner)
    /\ UNCHANGED <<netVars, timeVars>>

HandleUserMessage(k, text) ==
    /\ Registered(k)
    /\ Apply(handleUserMessage(conns, sessions, messages, tool_results,
                               [Msg("user.message", conns[k].owner) EXCEPT
                                   !.username = @] @@ [content |-> Str(text)], now),
             k, "user.message")

HandleAssistantChunk(k) ==
    /\ Registered(k)
    /\ Apply(handleAssistantChunk(conns, sessions, messages, tool_results,
                                  Msg("assistant.chunk", conns[k].owner)
                                      @@ [delta |-> "d"], now),
             k, "assistant.chunk")

HandleAssistantComplete(k, content) ==
    /\ Registered(k)
    /\ Apply(handleAssistantComplete(conns, sessions, messages, tool_results,
                                     Msg("assistant.complete", conns[k].owner)
                                         @@ [message |-> [role |-> "assistant",
                                                          content |-> Arr(content)]],
                                     now),
             k, "assistant.complete")

HandleToolExecute(k, id) ==
    /\ Registered(k)
    /\ Apply(handleToolExecute(conns, sessions, messages, tool_results,
                               Msg("tool.execute", conns[k].owner)
                                   @@ [toolUseId |-> id, toolName |-> "read_file",
                                       input |-> "path"]),
             k, "tool.execute")

HandleToolResult(k, id) ==
    /\ Registered(k)
    /\ Apply(handleToolResult(conns, sessions, messages, tool_results,
                              Msg("tool.result", conns[k].owner)
                                  @@ [toolUseId |-> id, content |-> Obj("result"),
                                      isError |-> FALSE], now),
             k, "tool.result")

HandleSyncRequest(k) ==
    /\ Registered(k)
    /\ out' = handleSyncRequest(sessions, messages, k,
                                Msg("sync.request", conns[k].owner))
    /\ ev' = Event("sync.request", k, SessionOf(conns[k].owner), conns[k].owner)
    /\ UNCHANGED <<sessions, netVars, timeVars, dbVars>>

-----------------------------------------------------------------------------
(* The relay with its durable log: every message type and disconnects; the  *)
(* clock stands still                                                        *)

LogTexts == {"hello"}

NextLog ==
    \/ \E p \in ClientIds : ConnOpen(p, Cardinality(ClientIds)) /\ UNCHANGED clientVars
    \/ \E p \in ClientIds : ClientDrop(p) /\ UNCHANGED clientVars
    \/ \E k \in ConnIds : HandleClientConnect(k) /\ UNCHANGED clientVars
    \/ \E k \in ConnIds : HandleLockRequest(k) /\ UNCHANGED clientVars
    \/ \E k \in ConnIds : HandleLockRelease(k) /\ UNCHANGED clientVars
    \/ \E k \in ConnIds, text \in LogTexts : HandleUserMessage(k, text) /\ UNCHANGED clientVars
    \/ \E k \in ConnIds : HandleAssistantChunk(k) /\ UNCHANGED clientVars
    \/ \E k \in ConnIds, c \in AssistantContents : HandleAssistantComplete(k, c) /\ UNCHANGED clientVars
    \/ \E k \in ConnIds, id \in ToolUseIds : HandleToolExecute(k, id) /\ UNCHANGED clientVars
    \/ \E k \in ConnIds, id \in ToolUseIds : HandleToolResult(k, id) /\ UNCHANGED clientVars
    \/ \E k \in ConnIds : HandleSyncRequest(k) /\ UNCHANGED clientVars
    \/ \E k \in ConnIds : WsClose(k) /\ UNCHANGED clientVars

SpecLog == Init /\ [][NextLog]_vars

-----------------------------------------------------------------------------
(* TUIClient.validateToolMessages: the conversation integrity repairer.  An *)
(* entry is [role, content]; content is a string or an array of blocks.     *)

IsArray(content) == content.t = "arr"

FilterType(blocks, type) == SelectSeq(blocks, LAMBDA blk : blk.type = type)
FilterNotType(blocks, type) == SelectSeq(blocks, LAMBDA blk : blk.type # type)

\* new Set(assistantContent.filter(tool_use).map(block => block.id))
ToolUseIdSet(prevMsg) ==
    LET assistantContent == IF IsArray(prevMsg.content) THEN prevMsg.content.b ELSE <<>>
    IN  {assistantContent[i].id :
            i \in {j \in 1..Len(assistantContent) : assistantContent[j].type = "tool_use"}}

ValidToolResults_All(toolResults, toolUseIds) == toolResults

\* toolResults.filter(block => toolUseIds.has(block.tool_use_id))
ValidToolResults(toolResults, toolUseIds) ==
    SelectSeq(toolResults, LAMBDA blk : blk.id \in toolUseIds)

\* the variant that takes the nearest assistant entry of the repaired
\* sequence as the predecessor, whatever lies between
RepairStep_NearestAssistant(result, msg) ==
    IF /\ msg.role = "user"
       /\ IsArray(msg.content)
       /\ FilterType(msg.content.b, "tool_result") # <<>>
    THEN LET toolResults == FilterType(msg.content.b, "tool_result")
             assistants == SelectSeq(result, LAMBDA e : e.role = "assistant")
         IN  IF assistants = <<>>
             THEN result
             ELSE LET toolUseIds == ToolUseIdSet(assistants[Len(assistants)])
                      validToolResults == ValidToolResults(toolResults, toolUseIds)
                      otherContent == FilterNotType(msg.content.b, "tool_result")
                      validContent == otherContent \o validToolResults
                  IN  IF validToolResults = <<>> THEN result
                      ELSE IF validContent # <<>>
                           THEN Append(result, [role |-> "user",
                                                content |-> Arr(validContent)])
                           ELSE result
    ELSE Append(result, msg)

\* the variant that puts the entry in front of the repaired sequence
resultPush_Front(result, entry) == <<entry>> \o result

\* result.resultPush(entry)
resultPush(result, entry) == Append(result, entry)

\* One iteration of the for loop; result is the repaired sequence so far
RepairStep(result, msg) ==
    IF /\ msg.role = "user"
       /\ IsArray(msg.content)
       /\ FilterType(msg.content.b, "tool_result") # <<>>
    THEN LET toolResults == FilterType(msg.content.b, "tool_result")
         IN  IF result = <<>> \/ result[Len(result)].role # "assistant"
             THEN result
             ELSE LET toolUseIds == ToolUseIdSet(result[Len(result)])
                      validToolResults == ValidToolResults(toolResults, toolUseIds)
                      otherContent == FilterNotType(msg.content.b, "tool_result")
                      validContent == otherContent \o validToolResults
                  IN  IF validToolResults = <<>> THEN result
                      ELSE IF validContent # <<>>
                           THEN resultPush(result, [role |-> "user",
                                              content |-> Arr(validContent)])
                           ELSE result
    ELSE resultPush(result, msg)

RECURSIVE RepairFrom(_, _)
RepairFrom(result, todo) ==
    IF todo = <<>> THEN result
    ELSE RepairFrom(RepairStep(result, Head(todo)), Tail(todo))

validateToolMessages(msgs) == RepairFrom(<<>>, msgs)

-----------------------------------------------------------------------------
(* The repairer applied to every bounded entry sequence.  User entries hold *)
(* typed text or text and tool-result blocks, assistant entries hold what   *)
(* the model returns: a string, or text and tool-invocation blocks.         *)

\* The sequences of at most n distinct elements of S
RECURSIVE SeqsNoDup(_, _)
SeqsNoDup(S, n) ==
    IF n = 0 THEN {<<>>}
    ELSE LET P == SeqsNoDup(S, n - 1)
         IN  P \cup UNION {{Append(q, x) : x \in {y \in S : \A i \in 1..Len(q) : q[i] # y}}
                              : q \in P}

\* A user entry holds its blocks in any order; the model answers with text
\* first and its tool invocations after it
UserBlocks == {TextBlock, ToolResult("A"), ToolResult("C")}

UserEntryContents ==
    {Str("hello")}
    \cup {Arr(b) : b \in (SeqsNoDup(UserBlocks, Cardinality(UserBlocks)) \ {<<>>})}

AssistantEntryContents ==
    {Str("hello")}
    \cup ({Arr(t \o a \o b) : t \in {<<>>, <<TextBlock>>},
                               a \in {<<>>, <<ToolUse("A")>>},
                               b \in {<<>>, <<ToolUse("B")>>}}
             \ {Arr(<<>>)})

RepairEntries ==
    {[role |-> "user", content |-> c] : c \in UserEntryContents}
    \cup {[role |-> "assistant", content |-> c] : c \in AssistantEntryContents}

\* conversation.push: the sequence handed to the repairer grows entry by entry
AddEntry(e) ==
    /\ rout = NotRun
    /\ Len(rin) < MaxEntries
    /\ rin' = Append(rin, e)
    /\ UNCHANGED <<rout, serverVars, tuiVars>>

Repair ==
    /\ rout = NotRun
    /\ rout' = validateToolMessages(rin)
    /\ UNCHANGED <<rin, serverVars, tuiVars>>

NextRepair ==
    \/ \E e \in RepairEntries : AddEntry(e)
    \/ Repair

SpecRepair == Init /\ [][NextRepair]_vars

-----------------------------------------------------------------------------
(* ws.on('message'): the switch on msg.type as a function of the relay state *)
(* st = [s, o, m, tr]: the registry, the effect trace, the two tables.       *)

onMessage(cs, st, k, msg, t) ==
    CASE msg.type = "sync.request" ->
            [st EXCEPT !.o = handleSyncRequest(st.s, st.m, k, msg)]
      [] msg.type = "lock.request" ->
            LET r == handleLockRequest(cs, st.s, msg, t)
            IN  [st EXCEPT !.s = r.s, !.o = r.o]
      [] msg.type = "lock.release" ->
            LET r == handleLockRelease(cs, st.s, msg)
            IN  [st EXCEPT !.s = r.s, !.o = r.o]
      [] msg.type = "user.message" ->
            handleUserMessage(cs, st.s, st.m, st.tr, msg, t)
      [] msg.type = "assistant.chunk" ->
            handleAssistantChunk(cs, st.s, st.m, st.tr, msg, t)
      [] msg.type = "assistant.complete" ->
            handleAssistantComplete(cs, st.s, st.m, st.tr, msg, t)
      [] msg.type = "tool.execute" ->
            handleToolExecute(cs, st.s, st.m, st.tr, msg)
      [] msg.type = "tool.result" ->
            handleToolResult(cs, st.s, st.m, st.tr, msg, t)
      [] OTHER -> Unchanged(st.s, st.m, st.tr)

\* The messages of one client handler, handled in the order they were sent;
\* pub collects the durable broadcasts sent on the way
RECURSIVE onMessages(_, _, _, _, _)
onMessages(cs, st, k, msgs, t) ==
    IF msgs = <<>> THEN [s |-> st.s, o |-> <<>>, m |-> st.m, tr |-> st.tr, pub |-> {}]
    ELSE LET r == onMessage(cs, st, k, Head(msgs), t)
             rest == onMessages(cs, r, k, Tail(msgs), t)
         IN  [rest EXCEPT !.o = r.o \o rest.o,
                          !.pub = Published(r.o, r.m, r.tr) \cup rest.pub]

-----------------------------------------------------------------------------
(* The TUI client (index.ts) over its WebSocketClient.  A client handler    *)
(* runs to completion on the client's event loop; what it sends reaches the *)
(* relay in order and is handled there before the next step.                *)

TuiClients == {"a"}
Peers == ClientIds \ TuiClients

\* Handlers that only draw on the screen, and tool.result.broadcast, which
\* has no handler: their messages change nothing in the client.  lock.denied
\* only draws too, but its handling is kept as a step of the client.
UiOnly == {"assistant.streaming", "tool.executing", "tool.result.broadcast",
           "error"}

\* What socket k receives of an effect trace
Inbound(o, k) ==
    LET mine == SelectSeq(o, LAMBDA e : e.to = k /\ e.msg.type \notin UiOnly)
    IN  [i \in 1..Len(mine) |-> mine[i].msg]

\* the variant that puts new arrivals in front of the unhandled messages
Deliver_Front(ib, o, sockets) ==
    [q \in ClientIds |->
        IF q \in TuiClients /\ sockets[q] # 0
        THEN Inbound(o, sockets[q]) \o ib[q]
        ELSE <<>>]

Deliver(ib, o, sockets) ==
    [q \in ClientIds |->
        IF q \in TuiClients /\ sockets[q] # 0
        THEN ib[q] \o Inbound(o, sockets[q])
        ELSE <<>>]

InboxFits(ib) == \A q \in ClientIds : Len(ib[q]) <= MaxInbox

\* The client side of a relay step that no TUI handler takes part in
Relayed ==
    /\ inbox' = Deliver(inbox, out', cur')
    /\ InboxFits(inbox')
    /\ UNCHANGED <<hasLock, pendingInput, initialSyncDone, conversation, phase,
                   reconnectAttempts, resync, calls, sent, repVars>>

\* ws.readyState === WebSocket.OPEN, and the relay has handled client.connect
isConnected(p) == cur[p] # 0 /\ Registered(cur[p])

\* The state of client p that a handler reads and writes; tx collects what
\* the handler sends
Local(p) ==
    [hasLock |-> hasLock[p], pendingInput |-> pendingInput[p],
     initialSyncDone |-> initialSyncDone[p], conversation |-> conversation[p],
     phase |-> phase[p], resync |-> resync[p], inbox |-> inbox[p],
     calls |-> calls[p], sent |-> sent[p], up |-> isConnected(p), tx |-> <<>>]

Shown(type, turn) == [type |-> type, turn |-> turn]

\* wsClient.send on an open socket; the trace keeps what belongs to a turn
send(c, msg, turn) ==
    [c EXCEPT !.tx = Append(@, msg),
              !.sent = IF turn = 0 THEN @ ELSE Append(@, Shown(msg.type, turn))]

showError(c, turn) == [c EXCEPT !.sent = Append(@, Shown("ui.showError", turn))]

\* releaseLock: sends lock.release only while hasLock; the send throws on a
\* closed socket and hasLock stays set
releaseLock(p, c, turn) ==
    IF c.hasLock /\ c.up
    THEN [send(c, Msg("lock.release", p), turn) EXCEPT !.hasLock = FALSE]
    ELSE c

requestLock(p, c) == send(c, Msg("lock.request", p), 0)

syncConversation(p, c) ==
    IF c.up THEN send(c, Msg("sync.request", p), 0) ELSE c

\* convertToAnthropicFormat: the fetched log as model-request entries
ConvertContent(content) ==
    CASE content.t = "str" -> content
      [] content.t = "arr" -> content
      [] content.t = "obj" -> Arr(<<[type |-> "object", id |-> content.s]>>)
      [] OTHER -> Str("")

NonEmptyContent(content) ==
    IF content.t = "str" THEN content.s # "" ELSE content.b # <<>>

convertToAnthropicFormat(msgs) ==
    LET converted == [i \in 1..Len(msgs) |->
                        [role |-> msgs[i].role,
                         content |-> ConvertContent(msgs[i].content)]]
    IN  validateToolMessages(
            SelectSeq(converted, LAMBDA e : NonEmptyContent(e.content)))

-----------------------------------------------------------------------------
(* One turn: handleUserMessage, callAnthropicAPI, executeToolLocally.  A    *)
(* call is [turn, st, content, tool, req]: the turn it belongs to (the      *)
(* index of the turn's first call), "streaming" / "done" / "failed", the    *)
(* content blocks streamed so far, the state of the tool execution its      *)
(* tool_use block started ("none", "running", "finished") and the entries   *)
(* it passed to the model.                                                  *)

push(c, entry) == [c EXCEPT !.conversation = Append(@, entry)]

\* The model names its tool invocations; successive ones differ
ToolUseIdFor(i) == IF i % 2 = 1 THEN "A" ELSE "B"

callAnthropicAPI(c, turn) ==
    [c EXCEPT !.calls = Append(@, [turn |-> turn, st |-> "streaming",
                                   content |-> <<>>, tool |-> "none",
                                   req |-> c.conversation])]

TUIClient_handleUserMessage(p, c, input) ==
    LET turn == Len(c.calls) + 1
    IN  IF c.up
        THEN callAnthropicAPI(
                 push(send(c, Msg("user.message", p) @@ [content |-> Str(input)], turn),
                      [role |-> "user", content |-> Str(input)]),
                 turn)
        ELSE releaseLock(p, showError(c, turn), turn)

\* The handler's writes and the relay's handling of what it sent
Commit(p, c, type) ==
    /\ IF cur[p] = 0 THEN TRUE ELSE Registered(cur[p])
    /\ Len(c.calls) <= MaxCalls
    /\ LET r == onMessages(conns, [s |-> sessions, o |-> <<>>, m |-> messages,
                                   tr |-> tool_results], cur[p], c.tx, now)
       IN  /\ sessions' = r.s
           /\ messages' = r.m
           /\ tool_results' = r.tr
           /\ published' = published \cup r.pub
           /\ out' = r.o
           /\ inbox' = Deliver([inbox EXCEPT ![p] = c.inbox], r.o, cur)
           /\ InboxFits(inbox')
    /\ ev' = Event(type, cur[p], SessionOf(p), p)
    /\ hasLock' = [hasLock EXCEPT ![p] = c.hasLock]
    /\ pendingInput' = [pendingInput EXCEPT ![p] = c.pendingInput]
    /\ initialSyncDone' = [initialSyncDone EXCEPT ![p] = c.initialSyncDone]
    /\ conversation' = [conversation EXCEPT ![p] = c.conversation]
    /\ phase' = [phase EXCEPT ![p] = c.phase]
    /\ resync' = [resync EXCEPT ![p] = c.resync]
    /\ calls' = [calls EXCEPT ![p] = c.calls]
    /\ sent' = [sent EXCEPT ![p] = c.sent]
    /\ UNCHANGED <<netVars, timeVars, reconnectAttempts, repVars>>

\* ui.onSubmit with a line that is not a command
TuiSubmit(p, input) ==
    /\ phase[p] = "ready"
    /\ Len(calls[p]) < MaxCalls
    /\ LET c == Local(p)
       IN  Commit(p,
                  IF ~c.hasLock
                  THEN IF c.up THEN [requestLock(p, c) EXCEPT !.pendingInput = input]
                       ELSE c
                  ELSE TUIClient_handleUserMessage(p, c, input),
                  "ui.submit")

\* stream.on('text'): a text delta, sent on with trySend
StreamText(p, i) ==
    /\ i \in 1..Len(calls[p])
    /\ calls[p][i].st = "streaming"
    /\ calls[p][i].content = <<>>
    /\ LET c == [Local(p) EXCEPT !.calls[i].content = <<TextBlock>>]
       IN  Commit(p,
                  IF c.up
                  THEN send(c, Msg("assistant.chunk", p) @@ [delta |-> "d"],
                            calls[p][i].turn)
                  ELSE c,
                  "stream.text")

RunningTools(cs) == Len(SelectSeq(cs, LAMBDA call : call.tool = "running"))

\* stream.on('contentBlock') with a tool_use block: executeToolLocally starts
\* and awaits tools.execute
StreamToolUse(p, i) ==
    /\ i \in 1..Len(calls[p])
    /\ calls[p][i].st = "streaming"
    /\ calls[p][i].tool = "none"
    /\ Len(calls[p]) + RunningTools(calls[p]) < MaxCalls
    /\ Commit(p, [Local(p) EXCEPT !.calls[i].content = Append(@, ToolUse(ToolUseIdFor(i))),
                                  !.calls[i].tool = "running"],
              "stream.contentBlock")

\* await stream.finalMessage() returns
StreamFinal(p, i) ==
    /\ i \in 1..Len(calls[p])
    /\ calls[p][i].st = "streaming"
    /\ calls[p][i].content # <<>>
    /\ LET turn == calls[p][i].turn
           finalMessage == [role |-> "assistant", content |-> Arr(calls[p][i].content)]
           c == push([Local(p) EXCEPT !.calls[i].st = "done"], finalMessage)
       IN  Commit(p,
                  IF c.up
                  THEN releaseLock(p, send(c, Msg("assistant.complete", p)
                                              @@ [message |-> finalMessage], turn),
                                   turn)
                  ELSE releaseLock(p, showError(c, turn), turn),
                  "stream.finalMessage")

\* the model request fails: the catch block of callAnthropicAPI
StreamError(p, i) ==
    /\ i \in 1..Len(calls[p])
    /\ calls[p][i].st = "streaming"
    /\ LET turn == calls[p][i].turn
           c == [Local(p) EXCEPT !.calls[i].st = "failed"]
       IN  Commit(p, releaseLock(p, showError(c, turn), turn), "stream.error")

\* await tools.execute() returns: the rest of executeToolLocally
ToolDone(p, i) ==
    /\ i \in 1..Len(calls[p])
    /\ calls[p][i].tool = "running"
    /\ LET turn == calls[p][i].turn
           id == ToolUseIdFor(i)
           c == [Local(p) EXCEPT !.calls[i].tool = "finished"]
       IN  Commit(p,
                  IF c.up
                  THEN callAnthropicAPI(
                           push(send(send(c, Msg("tool.execute", p)
                                             @@ [toolUseId |-> id,
                                                 toolName |-> "read_file",
                                                 input |-> "path"], turn),
                                     Msg("tool.result", p)
                                        @@ [toolUseId |-> id, content |-> Obj("result"),
                                            isError |-> FALSE], turn),
                                [role |-> "user", content |-> Arr(<<ToolResult(id)>>)]),
                           turn)
                  ELSE showError(c, turn),
                  "tool.done")

-----------------------------------------------------------------------------
(* The handlers of setupWSHandlers and the connection's life               *)

\* wsClient.on('sync.state')
onSyncState(c, data) ==
    IF ~c.initialSyncDone
    THEN [c EXCEPT !.conversation = convertToAnthropicFormat(data.messages),
                   !.initialSyncDone = TRUE]
    ELSE c

\* wsClient.on('lock.granted')
onLockGranted(p, c, data) ==
    IF data.clientId = p
    THEN LET granted == [c EXCEPT !.hasLock = TRUE]
         IN  IF granted.pendingInput # NULL
             THEN TUIClient_handleUserMessage(p, [granted EXCEPT !.pendingInput = NULL],
                                              granted.pendingInput)
             ELSE granted
    ELSE c

\* ws.on('message') of the client: emit(message.type, message), and the
\* connect promise resolves on 'connected'
Dispatch(p, c, data) ==
    CASE data.type = "connected" ->
            IF c.phase = "starting"
            THEN syncConversation(p, [c EXCEPT !.phase = "ready"])
            ELSE [syncConversation(p, c) EXCEPT !.resync = TRUE]
      [] data.type = "sync.state" -> [onSyncState(c, data) EXCEPT !.resync = FALSE]
      [] data.type = "lock.granted" -> onLockGranted(p, c, data)
      [] data.type = "lock.released" -> [c EXCEPT !.hasLock = FALSE]
      [] data.type = "user.message.broadcast" ->
            push(c, [role |-> "user", content |-> data.content])
      [] data.type = "assistant.complete.broadcast" ->
            push(c, [role |-> "assistant", content |-> data.message.content])
      [] data.type \in {"participant.joined", "participant.left"} ->
            syncConversation(p, c)
      [] OTHER -> c

TuiRecv(p) ==
    /\ inbox[p] # <<>>
    /\ Commit(p, Dispatch(p, [Local(p) EXCEPT !.inbox = Tail(@)], Head(inbox[p])),
              "on:" \o Head(inbox[p]).type)

\* start(): wsClient.connect opens the socket; its open handler sends
\* client.connect
TuiStart(p) ==
    /\ phase[p] = "new"
    /\ ConnOpen(p, MaxConns)
    /\ phase' = [phase EXCEPT ![p] = "starting"]
    /\ UNCHANGED <<hasLock, pendingInput, initialSyncDone, conversation,
                   reconnectAttempts, resync, inbox, calls, sent, repVars>>

\* ws.on('close') of the client: attemptReconnect while attempts remain
TuiClose(p) ==
    /\ phase[p] = "ready"
    /\ ClientDrop(p)
    /\ inbox' = [inbox EXCEPT ![p] = <<>>]
    /\ resync' = [resync EXCEPT ![p] = FALSE]
    /\ reconnectAttempts' =
          [reconnectAttempts EXCEPT ![p] =
              IF @ < maxReconnectAttempts THEN @ + 1 ELSE @]
    /\ UNCHANGED <<hasLock, pendingInput, initialSyncDone, conversation, phase,
                   calls, sent, repVars>>

\* the reconnect timer fires: connect() again; the open handler resets the
\* attempts and sends client.connect
TuiReconnect(p) ==
    /\ phase[p] = "ready"
    /\ reconnectAttempts[p] > 0
    /\ ConnOpen(p, MaxConns)
    /\ reconnectAttempts' = [reconnectAttempts EXCEPT ![p] = 0]
    /\ UNCHANGED <<hasLock, pendingInput, initialSyncDone, conversation, phase,
                   resync, inbox, calls, sent, repVars>>

-----------------------------------------------------------------------------
(* One TUI client and its turns, with the relay *)

NextTurn ==
    \/ \E p \in TuiClients : TuiStart(p)
    \/ \E k \in ConnIds : HandleClientConnect(k) /\ Relayed
    \/ \E p \in TuiClients : TuiRecv(p)
    \/ \E p \in TuiClients, text \in LogTexts : TuiSubmit(p, text)
    \/ \E p \in TuiClients, i \in 1..MaxCalls : StreamText(p, i)
    \/ \E p \in TuiClients, i \in 1..MaxCalls : StreamToolUse(p, i)
    \/ \E p \in TuiClients, i \in 1..MaxCalls : StreamFinal(p, i)
    \/ \E p \in TuiClients, i \in 1..MaxCalls : StreamError(p, i)
    \/ \E p \in TuiClients, i \in 1..MaxCalls : ToolDone(p, i)

SpecTurn == Init /\ [][NextTurn]_vars

(* One TUI client that listens, loses its connection and reconnects, while *)
(* a peer takes turns                                                      *)

PeerConn(k) == conns[k].owner \in Peers

NextSync ==
    \/ \E p \in TuiClients : TuiStart(p)
    \/ \E p \in Peers : ConnOpen(p, MaxConns) /\ Relayed
    \/ \E k \in ConnIds : HandleClientConnect(k) /\ Relayed
    \/ \E p \in TuiClients : TuiRecv(p)
    \/ \E p \in TuiClients : TuiClose(p)
    \/ \E p \in TuiClients : TuiReconnect(p)
    \/ \E k \in ConnIds : WsClose(k) /\ Relayed
    \/ \E k \in ConnIds : PeerConn(k) /\ HandleLockRequest(k) /\ Relayed
    \/ \E k \in ConnIds, text \in LogTexts : PeerConn(k) /\ HandleUserMessage(k, text) /\ Relayed
    \/ \E k \in ConnIds, c \in AssistantContents :
          PeerConn(k) /\ HandleAssistantComplete(k, c) /\ Relayed

SpecSync == Init /\ [][NextSync]_vars

-----------------------------------------------------------------------------
(* Claims about the turn lock (SpecLock, SpecTimeout) *)

Held(sid) == HasSession(sid) /\ sessions[sid].lockHolder # NULL

\* C1: a lock.request from participant q while participant p # q holds the
\* session's lock never changes the holder; the registry records one holder
\* per session (lockHolder is a single participant id or null).
C1_NoSteal ==
    [][ (/\ ev'.type = "lock.request"
         /\ Held(ev'.sessionId)
         /\ sessions[ev'.sessionId].lockHolder # ev'.clientId)
        => (/\ ev'.sessionId \in DOMAIN sessions'
            /\ sessions'[ev'.sessionId].lockHolder = sessions[ev'.sessionId].lockHolder
            /\ sessions'[ev'.sessionId].lockHolder \in ClientIds) ]_vars

\* A request has just been denied: the lock is held by another participant
C1_Witness ==
    /\ ev.type = "lock.request"
    /\ Held(ev.sessionId)
    /\ sessions[ev.sessionId].lockHolder # ev.clientId
    /\ \E i \in 1..Len(out) : out[i].msg.type = "lock.denied"

\* C2: whenever a session's lock is held, the holder is a key of the
\* session's roster (session.clients).
C2_HolderInRoster ==
    \A sid \in DOMAIN sessions :
        sessions[sid].lockHolder # NULL
            => MapHas(sessions[sid].clients, sessions[sid].lockHolder)

\* C3: when the connection of the current lock holder closes, the lock is
\* idle right after the close is handled, and every remaining connected
\* participant is sent lock.released (holder_disconnected) before
\* participant.left.
SentBefore(o, k, type1, reason1, type2) ==
    \E i, j \in 1..Len(o) :
        /\ i < j
        /\ o[i].to = k /\ o[i].msg.type = type1 /\ o[i].msg.reason = reason1
        /\ o[j].to = k /\ o[j].msg.type = type2

C3_HolderCloseReleases ==
    [][ (/\ ev'.type = "close"
         /\ ev'.clientId # NULL
         /\ Held(ev'.sessionId)
         /\ sessions[ev'.sessionId].lockHolder = ev'.clientId)
        => (/\ ev'.sessionId \in DOMAIN sessions'
                 => sessions'[ev'.sessionId].lockHolder = NULL
            /\ ev'.sessionId \in DOMAIN sessions' =>
                 \A i \in 1..Len(sessions'[ev'.sessionId].clients) :
                    LET c == sessions'[ev'.sessionId].clients[i]
                    IN  ReadyOpen(conns', c.ws) =>
                          SentBefore(out', c.ws, "lock.released",
                                     "holder_disconnected", "participant.left")) ]_vars

\* C4: a held lock is released by the sweep no later than the first sweep
\* tick after grantedAt + 30 s, and that release sends lock.released with
\* reason timeout to every connected participant of the session.
FirstTickAfter(t) ==
    ServerStart + (((t - ServerStart) \div SWEEP_INTERVAL_MS) + 1) * SWEEP_INTERVAL_MS

C4_Deadline(sid) == FirstTickAfter(sessions[sid].lockGrantedAt + LOCK_TIMEOUT_MS)

-----------------------------------------------------------------------------
(* Claims about the durable log and the broadcasts (SpecLog) *)

GatedTypes == {"user.message", "assistant.chunk", "assistant.complete"}

\* C5: a user.message, assistant.chunk or assistant.complete from a
\* participant that is not the session's lock holder changes neither the
\* log, the lock nor the roster, and nothing is sent to anyone (no broadcast,
\* no error to the sender).
C5_NonHolderDropped ==
    [][ (/\ ev'.type \in GatedTypes
         /\ ~(HasSession(ev'.sessionId)
              /\ sessions[ev'.sessionId].lockHolder = ev'.clientId))
        => (/\ sessions' = sessions
            /\ messages' = messages
            /\ tool_results' = tool_results
            /\ out' = <<>>) ]_vars

\* A message of a non-holder has just been handled while another holds the lock
C5_Witness ==
    /\ ev.type \in GatedTypes
    /\ Held(ev.sessionId)
    /\ sessions[ev.sessionId].lockHolder # ev.clientId
    /\ Len(sessions[ev.sessionId].clients) = 2
    /\ messages # <<>>

\* The row a durable broadcast stands for
RowOf(row, b) ==
    CASE b.type = "user.message.broadcast" ->
            /\ row.role = "user"
            /\ row.content = b.content
            /\ row.author_username = b.username
      [] b.type = "assistant.complete.broadcast" ->
            /\ row.role = "assistant"
            /\ row.content = JSONstringify(b.message.content)
      [] b.type = "tool.result.broadcast" ->
            /\ row.tool_use_id = b.toolUseId
            /\ row.content = JSONstringify(b.content)

InTable(row, table) == \E n \in 1..Len(table) : table[n] = row

\* C6: in the effect trace of every handler, each send of a durable
\* broadcast (user message, assistant-complete, tool-result) comes after the
\* database insert of its record, and the record is in the store.
C6_WriteBeforeBroadcast ==
    \A j \in 1..Len(out) :
        (out[j].to # DB /\ out[j].msg.type \in DurableBroadcasts)
        => \E i \in 1..(j - 1) :
              /\ out[i].to = DB
              /\ out[i].msg.type = "db.insert"
              /\ out[i].msg.table = TableOf(out[j].msg.type)
              /\ RowOf(out[i].msg.row, out[j].msg)
              /\ InTable(out[i].msg.row,
                         IF out[i].msg.table = "messages" THEN messages
                         ELSE tool_results)

\* A tool-result broadcast has just been sent to a participant
C6_Witness ==
    \E j \in 1..Len(out) :
        out[j].to # DB /\ out[j].msg.type = "tool.result.broadcast"

SyncAnswered == ev.type = "sync.request" /\ out[1].msg.type = "sync.state"

SyncIds == {out[1].msg.messages[n].id : n \in 1..Len(out[1].msg.messages)}

\* C7 as stated: a sync.state answering a participant includes the record of
\* every durable broadcast (user message, assistant-complete, tool-result)
\* that participant was sent before.
C7_SyncIncludesAllDurable ==
    SyncAnswered =>
        \A e \in published :
            e.to = ev.conn =>
                /\ e.table = "messages"
                /\ e.id \in SyncIds

\* C7 amended: a sync.state answering a participant includes the entry of
\* every user-message and assistant-complete broadcast that participant was
\* sent before; the record of a tool-result broadcast is in the tool_results
\* table, which sync.state does not return.
C7_SyncIncludesEntries ==
    /\ SyncAnswered =>
         \A e \in published :
            (e.to = ev.conn /\ e.table = "messages") => e.id \in SyncIds
    /\ \A e \in published :
         e.table = "tool_results" =>
            \E n \in 1..Len(tool_results) : tool_results[n].id = e.id

\* A participant that was sent an assistant-complete broadcast has synced
C7_Witness ==
    /\ SyncAnswered
    /\ \E e \in published :
          /\ e.to = ev.conn /\ e.table = "messages"
          /\ messages[e.id].role = "assistant"
          /\ e.id = Len(messages)

-----------------------------------------------------------------------------
(* Claims about the conversation integrity repairer (SpecRepair) *)

Repaired == rout # NotRun

BlockAt(entries, i, type, id) ==
    /\ IsArray(entries[i].content)
    /\ \E j \in 1..Len(entries[i].content.b) :
          entries[i].content.b[j] = [type |-> type, id |-> id]

\* The ids of the tool-result blocks of entry i
ResultIds(entries, i) ==
    IF IsArray(entries[i].content)
    THEN {entries[i].content.b[j].id :
            j \in {n \in 1..Len(entries[i].content.b) :
                      entries[i].content.b[n].type = "tool_result"}}
    ELSE {}

InvokesAB == [role |-> "assistant", content |-> Arr(<<ToolUse("A"), ToolUse("B")>>)]

\* C8: in the repaired sequence every tool-result block lies in a user entry
\* whose immediately preceding entry is an assistant entry holding a
\* tool-invocation block of the same id; after invocations {A, B} results
\* {A, C} keep only A, and results {C} alone leave no user entry.
C8_ResultsFollowInvocations ==
    Repaired =>
        /\ \A i \in 1..Len(rout) : \A id \in ResultIds(rout, i) :
              /\ rout[i].role = "user"
              /\ i > 1
              /\ rout[i - 1].role = "assistant"
              /\ BlockAt(rout, i - 1, "tool_use", id)
        /\ \A n \in 2..Len(rin) :
              /\ rin[n - 1] = InvokesAB
              /\ rin[n] = [role |-> "user", content |-> Arr(<<ToolResult("A"), ToolResult("C")>>)]
              => LET kept == validateToolMessages(SubSeq(rin, 1, n))
                 IN  /\ kept[Len(kept) - 1] = InvokesAB
                     /\ kept[Len(kept)] = [role |-> "user",
                                           content |-> Arr(<<ToolResult("A")>>)]
        /\ \A n \in 2..Len(rin) :
              /\ rin[n - 1] = InvokesAB
              /\ rin[n] = [role |-> "user", content |-> Arr(<<ToolResult("C")>>)]
              => LET kept == validateToolMessages(SubSeq(rin, 1, n))
                 IN  kept[Len(kept)] = InvokesAB

C8_Witness ==
    /\ Repaired
    /\ rin = <<InvokesAB,
               [role |-> "user", content |-> Arr(<<ToolResult("A"), ToolResult("C")>>)]>>
    /\ rout[Len(rout)] = [role |-> "user", content |-> Arr(<<ToolResult("A")>>)]

-----------------------------------------------------------------------------
(* Claims about a client's turn (SpecTurn) *)

ModelOutput == {"assistant.chunk", "assistant.complete"}

\* C9: within a turn the client sends lock.release only after the turn's last
\* model response has completed or errored, and sends no assistant.chunk or
\* assistant.complete of the turn after its lock.release.
C9_ReleaseEndsTurn ==
    \A p \in TuiClients : \A i \in 1..Len(sent[p]) :
        sent[p][i].type = "lock.release" =>
            /\ \A j \in (i + 1)..Len(sent[p]) :
                  sent[p][j].turn = sent[p][i].turn => sent[p][j].type \notin ModelOutput
            /\ \A n \in 1..Len(calls[p]) :
                  calls[p][n].turn = sent[p][i].turn =>
                      /\ calls[p][n].st # "streaming"
                      /\ calls[p][n].tool # "running"

-----------------------------------------------------------------------------
(* Claims about reconnecting and resynchronising (SpecSync) *)

\* C10: when a reconnected client handles the sync.state that answers its
\* resync, its conversation cache becomes the repaired entry sequence of the
\* log that sync.state carries.
C10_ResyncReplacesCache ==
    [][\A p \in TuiClients :
          (/\ resync[p]
           /\ inbox[p] # <<>>
           /\ Head(inbox[p]).type = "sync.state"
           /\ ev'.type = "on:sync.state"
           /\ ev'.clientId = p)
          => conversation'[p] = convertToAnthropicFormat(Head(inbox[p]).messages)]_vars

-----------------------------------------------------------------------------
(* Claims about the caches and the durable log (SpecTurn) *)

\* No handler of client p is pending: nothing to dispatch, no model response
\* streaming, no tool running, no input waiting for the lock
Quiescent(p) ==
    /\ phase[p] = "ready"
    /\ initialSyncDone[p]
    /\ inbox[p] = <<>>
    /\ pendingInput[p] = NULL
    /\ \A n \in 1..Len(calls[p]) :
          calls[p][n].st # "streaming" /\ calls[p][n].tool # "running"

\* The roles and contents of the session's durable log, in order
LogEntries(sid) ==
    LET log == getMessages(messages, sid)
    IN  [i \in 1..Len(log) |-> [role |-> log[i].role, content |-> log[i].content]]

\* C11: in a quiescent state a connected, synced participant's conversation
\* cache equals the session's durable log (same roles and contents in the same
\* order), also after a turn that executed tools.
C11_CacheEqualsLog ==
    \A p \in TuiClients :
        Quiescent(p) /\ isConnected(p) => conversation[p] = LogEntries(SessionOf(p))

\* The pairing property of an entry sequence: every tool-result block lies in
\* a user entry right after an assistant entry invoking the same id
Paired(entries) ==
    \A i \in 1..Len(entries) : \A id \in ResultIds(entries, i) :
        /\ entries[i].role = "user"
        /\ i > 1
        /\ entries[i - 1].role = "assistant"
        /\ BlockAt(entries, i - 1, "tool_use", id)

\* C12: the entry sequence passed to every model request satisfies the pairing
\* property, for every interleaving of sync.state, broadcasts, tool completion
\* and stream completion.
C12_RequestsPaired ==
    \A p \in TuiClients : \A n \in 1..Len(calls[p]) : Paired(calls[p][n].req)

\* C13: when a model turn errors on the client, the client has sent
\* lock.release for that turn before the error is shown to the user.
C13_ReleaseBeforeError ==
    \A p \in TuiClients : \A i \in 1..Len(sent[p]) :
        sent[p][i].type = "ui.showError" =>
            \E j \in 1..(i - 1) :
                /\ sent[p][j].type = "lock.release"
                /\ sent[p][j].turn = sent[p][i].turn

-----------------------------------------------------------------------------
(* A durable write that fails: db.saveMessage throws inside the handler,   *)
(* and the catch block of ws.on('message') runs                            *)

\* handleUserMessage / handleAssistantComplete up to the throwing
\* db.saveMessage, then the catch block: lastActivity is already written,
\* nothing is broadcast, the sender's socket gets the error message
saveMessageThrows(ss, m, tr, msg, t, k) ==
    IF msg.sessionId \notin DOMAIN ss THEN Unchanged(ss, m, tr)
    ELSE LET session == ss[msg.sessionId]
         IN  IF ~IsLockHolder(session, msg) THEN Unchanged(ss, m, tr)
             ELSE [s |-> PutSession(ss, msg.sessionId,
                                    [session EXCEPT !.lastActivity = t]),
                   o |-> SendTo(k, [type |-> "error",
                                    message |-> "Internal server error"]),
                   m |-> m, tr |-> tr]

\* The handler reaches db.saveMessage: the session exists and the sender holds
\* its lock
ReachesWrite(k) ==
    /\ Registered(k)
    /\ HasSession(conns[k].sessionId)
    /\ IsLockHolder(sessions[conns[k].sessionId], Msg("user.message", conns[k].owner))

UserMessageWriteFails(k, text) ==
    /\ ReachesWrite(k)
    /\ Apply(saveMessageThrows(sessions, messages, tool_results,
                               Msg("user.message", conns[k].owner)
                                   @@ [content |-> Str(text)], now, k),
             k, "user.message.failed")

AssistantCompleteWriteFails(k, content) ==
    /\ ReachesWrite(k)
    /\ Apply(saveMessageThrows(sessions, messages, tool_results,
                               Msg("assistant.complete", conns[k].owner)
                                   @@ [message |-> [role |-> "assistant",
                                                    content |-> Arr(content)]],
                               now, k),
             k, "assistant.complete.failed")

NextFail ==
    \/ \E p \in ClientIds : ConnOpen(p, Cardinality(ClientIds)) /\ UNCHANGED clientVars
    \/ \E p \in ClientIds : ClientDrop(p) /\ UNCHANGED clientVars
    \/ \E k \in ConnIds : HandleClientConnect(k) /\ UNCHANGED clientVars
    \/ \E k \in ConnIds : HandleLockRequest(k) /\ UNCHANGED clientVars
    \/ \E k \in ConnIds : HandleLockRelease(k) /\ UNCHANGED clientVars
    \/ \E k \in ConnIds, text \in LogTexts : HandleUserMessage(k, text) /\ UNCHANGED clientVars
    \/ \E k \in ConnIds, c \in AssistantContents : HandleAssistantComplete(k, c) /\ UNCHANGED clientVars
    \/ \E k \in ConnIds, text \in LogTexts : UserMessageWriteFails(k, text) /\ UNCHANGED clientVars
    \/ \E k \in ConnIds, c \in AssistantContents : AssistantCompleteWriteFails(k, c) /\ UNCHANGED clientVars
    \/ \E k \in ConnIds : WsClose(k) /\ UNCHANGED clientVars

SpecFail == Init /\ [][NextFail]_vars

FailedWrites == {"user.message.failed", "assistant.complete.failed"}

\* C14: after the durable write of an accepted user-message or
\* assistant-complete fails, the event has not been broadcast, the sender has
\* been told of the failure, and the session's lock is Idle.
C14_WriteFailureReleases ==
    ev.type \in FailedWrites =>
        /\ \A i \in 1..Len(out) : out[i].msg.type \notin DurableBroadcasts
        /\ \E i \in 1..Len(out) : out[i].to = ev.conn /\ out[i].msg.type = "error"
        /\ ~Held(ev.sessionId)

-----------------------------------------------------------------------------
(* Claims about the effects of lock.request and lock.release (SpecLock) *)

Delivered(o, k, message) == \E i \in 1..Len(o) : o[i] = [to |-> k, msg |-> message]

\* The lock.request being handled in this step comes from ev'.clientId for
\* session ev'.sessionId, which exists
LockRequestStep == ev'.type = "lock.request" /\ HasSession(ev'.sessionId)

\* The roster entries of session sid whose socket is open
OpenRoster(sid) ==
    {sessions[sid].clients[i] :
        i \in {n \in 1..Len(sessions[sid].clients) :
                  ReadyOpen(conns, sessions[sid].clients[n].ws)}}

\* C15: a lock.request from p on a session whose lock is Idle or Held by p
\* leaves the lock Held by p with grantedAt the time of this request, and
\* lock.granted naming p is sent to every connected participant of the
\* session and to p itself.
C15_GrantEffect ==
    [][ (/\ LockRequestStep
         /\ sessions[ev'.sessionId].lockHolder \in {NULL, ev'.clientId})
        => LET granted == [type |-> "lock.granted", clientId |-> ev'.clientId,
                           username |-> UsernameOf(ev'.clientId)]
           IN  /\ sessions'[ev'.sessionId].lockHolder = ev'.clientId
               /\ sessions'[ev'.sessionId].lockUsername = UsernameOf(ev'.clientId)
               /\ sessions'[ev'.sessionId].lockGrantedAt = now
               /\ \A c \in OpenRoster(ev'.sessionId) : Delivered(out', c.ws, granted)
               /\ Delivered(out', ev'.conn, granted) ]_vars

\* C16: a lock.request from q while the lock is Held by p # q leaves the
\* holder, the holder's name and grantedAt unchanged and produces exactly one
\* message: lock.denied carrying the holder's display name, sent to q.
C16_DenyEffect ==
    [][ (/\ LockRequestStep
         /\ sessions[ev'.sessionId].lockHolder \notin {NULL, ev'.clientId})
        => /\ sessions'[ev'.sessionId].lockHolder = sessions[ev'.sessionId].lockHolder
           /\ sessions'[ev'.sessionId].lockUsername = sessions[ev'.sessionId].lockUsername
           /\ sessions'[ev'.sessionId].lockGrantedAt = sessions[ev'.sessionId].lockGrantedAt
           /\ out' = SendTo(ev'.conn,
                            [type |-> "lock.denied",
                             holder |-> UsernameOf(sessions[ev'.sessionId].lockHolder),
                             reason |-> "lock_held"]) ]_vars

Idle(session) ==
    /\ session.lockHolder = NULL
    /\ session.lockUsername = NULL
    /\ session.lockGrantedAt = NoTime

\* C17: a lock.release is effective only when its sender is the current
\* holder of the session's lock: the lock then becomes Idle and lock.released
\* is sent to every participant of the session; a release from anyone else
\* changes no state and emits nothing.
C17_ReleaseEffect ==
    [][ ev'.type = "lock.release"
        => IF HasSession(ev'.sessionId)
              /\ sessions[ev'.sessionId].lockHolder = ev'.clientId
           THEN /\ Idle(sessions'[ev'.sessionId])
                /\ \A c \in OpenRoster(ev'.sessionId) :
                      Delivered(out', c.ws, [type |-> "lock.released", reason |-> NULL])
           ELSE /\ sessions' = sessions
                /\ out' = <<>>
                /\ UNCHANGED dbVars ]_vars

\* A release from a participant that is not the holder has been handled while
\* another participant holds a lock granted after time has passed (as after an
\* expiry and a re-grant): nothing was sent
C17_Witness ==
    /\ ev.type = "lock.release"
    /\ Held(ev.sessionId)
    /\ sessions[ev.sessionId].lockHolder # ev.clientId
    /\ sessions[ev.sessionId].lockGrantedAt > ServerStart
    /\ out = <<>>

-----------------------------------------------------------------------------
(* The death of a client process, and the relay under fair scheduling of   *)
(* its close handlers, its sweep timer and the clock                       *)

Dead == {"dead", "deadHolder"}

Alive(p) == phase[p] \notin Dead

\* The client process of p is killed: its socket, if any, goes away without
\* lock.release and p never connects again.  The position it stops at tells
\* whether it was killed while the relay had it as the holder.
Die(p) ==
    /\ Alive(p)
    /\ phase' = [phase EXCEPT ![p] =
                    IF HasSession(SessionOf(p)) /\ sessions[SessionOf(p)].lockHolder = p
                    THEN "deadHolder" ELSE "dead"]
    /\ cur' = [cur EXCEPT ![p] = 0]
    /\ ev' = Event("die", cur[p], NULL, NULL)
    /\ out' = <<>>
    /\ UNCHANGED <<sessions, conns, timeVars, dbVars, repVars>>
    /\ UNCHANGED <<hasLock, pendingInput, initialSyncDone, conversation,
                   reconnectAttempts, resync, inbox, calls, sent>>

NextLive ==
    \/ \E p \in ClientIds : Alive(p) /\ ConnOpen(p, MaxConns) /\ UNCHANGED clientVars
    \/ \E p \in ClientIds : ClientDrop(p) /\ UNCHANGED clientVars
    \/ \E p \in ClientIds : Die(p)
    \/ \E k \in ConnIds : HandleClientConnect(k) /\ UNCHANGED clientVars
    \/ \E k \in ConnIds : HandleLockRequest(k) /\ UNCHANGED clientVars
    \/ \E k \in ConnIds : HandleLockRelease(k) /\ UNCHANGED clientVars
    \/ \E k \in ConnIds : WsClose(k) /\ UNCHANGED clientVars
    \/ Sweep /\ UNCHANGED clientVars
    \/ Tick(LongStep) /\ UNCHANGED clientVars

\* The event loop runs every close event of a dropped socket, the interval
\* timer fires, and the clock advances
FairLive ==
    /\ \A k \in ConnIds : WF_vars(WsClose(k) /\ UNCHANGED clientVars)
    /\ WF_vars(Sweep /\ UNCHANGED clientVars)
    /\ WF_vars(Tick(LongStep) /\ UNCHANGED clientVars)

SpecLive == Init /\ [][NextLive]_vars /\ FairLive

\* A dead process holds the lock of its session, and the modelled clock can
\* still pass the timeout
DeadHolder(p) ==
    /\ phase[p] = "deadHolder"
    /\ HasSession(SessionOf(p))
    /\ sessions[SessionOf(p)].lockHolder = p
    /\ now + LongStep <= MaxTime

\* The liveness half of C18: the lock of a dead holder eventually becomes Idle
C18_DeadHolderFreed ==
    \A p \in ClientIds : DeadHolder(p) ~> ~Held(SessionOf(p))

\* The other half of C18: once the lock of a process that died holding it is
\* not Held any more, a lock.request of a connected participant is granted
C18_GrantAfterDeath ==
    [][ (/\ ev'.type = "lock.request"
         /\ \E p \in ClientIds : phase[p] = "deadHolder" /\ SessionOf(p) = ev'.sessionId
         /\ ~Held(ev'.sessionId))
        => /\ ev'.sessionId \in DOMAIN sessions'
           /\ sessions'[ev'.sessionId].lockHolder = ev'.clientId ]_vars

\* C18: if the holder's process dies without releasing, then under fair
\* scheduling of the disconnect handler and the sweep the lock eventually
\* becomes Idle, and afterwards a lock.request from any remaining participant
\* is granted.
C18_DeadHolderRecovery == C18_DeadHolderFreed /\ C18_GrantAfterDeath

-----------------------------------------------------------------------------
(* The sweep against a holder that keeps working: one participant on one   *)
(* connection, so that after the grant only its own accepted messages      *)
(* write lastActivity                                                      *)

Workers == {"a"}

NextActive ==
    \/ \E p \in Workers : ConnOpen(p, Cardinality(Workers)) /\ UNCHANGED clientVars
    \/ \E k \in ConnIds : HandleClientConnect(k) /\ UNCHANGED clientVars
    \/ \E k \in ConnIds : HandleLockRequest(k) /\ UNCHANGED clientVars
    \/ \E k \in ConnIds : HandleLockRelease(k) /\ UNCHANGED clientVars
    \/ \E k \in ConnIds, text \in LogTexts : HandleUserMessage(k, text) /\ UNCHANGED clientVars
    \/ \E k \in ConnIds : HandleAssistantChunk(k) /\ UNCHANGED clientVars
    \/ \E k \in ConnIds : HandleAssistantComplete(k, <<TextBlock>>) /\ UNCHANGED clientVars
    \/ Sweep /\ UNCHANGED clientVars
    \/ Tick(SWEEP_INTERVAL_MS) /\ UNCHANGED clientVars

SpecActive == Init /\ [][NextActive]_vars

\* The holder of the session's lock has sent an accepted message since the
\* grant; the grant, its accepted messages and time t all lie less than
\* LOCK_TIMEOUT_MS apart
ActiveHolder(session, t) ==
    /\ session.lockHolder # NULL
    /\ session.lastActivity > session.lockGrantedAt
    /\ session.lastActivity - session.lockGrantedAt < LOCK_TIMEOUT_MS
    /\ t - session.lastActivity < LOCK_TIMEOUT_MS

\* C19: the sweep does not release the lock of a holder that keeps sending
\* accepted user.message, assistant.chunk or assistant.complete messages less
\* than 30 s apart.
C19_ActiveHolderKept ==
    [][ ev'.type = "sweep"
        => \A sid \in DOMAIN sessions :
              ActiveHolder(sessions[sid], now)
              => sessions'[sid].lockHolder = sessions[sid].lockHolder ]_vars

-----------------------------------------------------------------------------
(* Claims about the session registry (SpecLock) *)

\* C20: every session in the registry has a non-empty participant set after
\* every processed event; a session enters the registry only through a
\* client.connect for its id, with the lock Idle and the connecting
\* participant as its roster, and leaves it when its roster becomes empty.
C20_RegistryNonEmpty ==
    /\ [](\A sid \in DOMAIN sessions : sessions[sid].clients # <<>>)
    /\ [][ /\ \A sid \in DOMAIN sessions' \ DOMAIN sessions :
                /\ ev'.type = "client.connect"
                /\ ev'.sessionId = sid
                /\ Idle(sessions'[sid])
                /\ Len(sessions'[sid].clients) = 1
                /\ sessions'[sid].clients[1].clientId = ev'.clientId
           /\ \A sid \in DOMAIN sessions \ DOMAIN sessions' :
                /\ ev'.type = "close"
                /\ ev'.sessionId = sid
                /\ Len(sessions[sid].clients) = 1
                /\ sessions[sid].clients[1].clientId = ev'.clientId ]_vars

\* The last participant's close has been handled and the session is gone
C20_Witness ==
    /\ ev.type = "close"
    /\ ev.sessionId # NULL
    /\ ~HasSession(ev.sessionId)
    /\ Len(out) = 0

-----------------------------------------------------------------------------
(* Claims about the durable log across the life of a session (SpecLog) *)

\* The rows of session sid in the messages table, in insertion order
SessionRows(sid) == SelectSeq(messages, LAMBDA r : r.session_id = sid)

Ids(rows) == [i \in 1..Len(rows) |-> rows[i].id]

\* The last event was a client.connect that created the session in the
\* registry
Recreated ==
    /\ ev.type = "client.connect"
    /\ out # <<>>
    /\ out[1] = [to |-> DB, msg |-> [type |-> "db.createSession",
                                     sessionId |-> ev.sessionId]]

\* What the relay answers to a sync.request of the participant on connection k
SyncAnswer(k) ==
    handleSyncRequest(sessions, messages, k, Msg("sync.request", conns[k].owner))[1].msg

\* C21: no step removes or rewrites a persisted entry, the close that destroys
\* a session included; when the session id is admitted again the new session's
\* lock is Idle and a sync returns every persisted entry of the session in the
\* original order.
C21_HistorySurvives ==
    /\ [](Recreated =>
            /\ Idle(sessions[ev.sessionId])
            /\ SyncAnswer(ev.conn).type = "sync.state"
            /\ SyncAnswer(ev.conn).lockHolder = NULL
            /\ Ids(SyncAnswer(ev.conn).messages) = Ids(SessionRows(ev.sessionId))
            /\ \A i \in 1..Len(SessionRows(ev.sessionId)) :
                  SyncAnswer(ev.conn).messages[i].role = SessionRows(ev.sessionId)[i].role)
    /\ [][ \A i \in 1..Len(messages) :
              Len(messages') >= i /\ messages'[i] = messages[i] ]_vars

\* A session whose log holds entries has been destroyed and its id admitted
\* again
C21_Witness ==
    /\ Recreated
    /\ Len(SessionRows(ev.sessionId)) = MaxLog

-----------------------------------------------------------------------------
(* A connection that sends client.connect again under another participant  *)
(* id: the relay accepts client.connect at any time on any socket           *)

HandleClientConnectAgain(k, cid) ==
    /\ Registered(k)
    /\ cid # conns[k].clientId
    /\ ClientConnect(k, [type |-> "client.connect", sessionId |-> conns[k].sessionId,
                         clientId |-> cid, username |-> UsernameOf(cid)])

NextRoster ==
    \/ \E p \in ClientIds : ConnOpen(p, Cardinality(ClientIds)) /\ UNCHANGED clientVars
    \/ \E p \in ClientIds : ClientDrop(p) /\ UNCHANGED clientVars
    \/ \E k \in ConnIds : HandleClientConnect(k) /\ UNCHANGED clientVars
    \/ \E k \in ConnIds, cid \in ClientIds : HandleClientConnectAgain(k, cid) /\ UNCHANGED clientVars
    \/ \E k \in ConnIds : HandleLockRequest(k) /\ UNCHANGED clientVars
    \/ \E k \in ConnIds : HandleLockRelease(k) /\ UNCHANGED clientVars
    \/ \E k \in ConnIds : WsClose(k) /\ UNCHANGED clientVars

SpecRoster == Init /\ [][NextRoster]_vars

\* C22: after the close of a connection has been processed no session roster
\* holds a participant registered through that connection, also when the
\* connection sent client.connect more than once.
C22_CloseRemovesRegistrations ==
    [][ ev'.type = "close"
        => \A sid \in DOMAIN sessions' : \A i \in 1..Len(sessions'[sid].clients) :
              sessions'[sid].clients[i].ws # ev'.conn ]_vars

-----------------------------------------------------------------------------
(* A TUI client that asks for the lock while a peer takes and gives up     *)
(* turns: deferred input, /lock, denial                                    *)

\* ui.onSubmit with the command /lock: handleCommand calls requestLock
TuiLock(p) ==
    /\ phase[p] = "ready"
    /\ LET c == Local(p)
       IN  Commit(p, IF c.up THEN requestLock(p, c) ELSE c, "ui.command.lock")

NextDefer ==
    \/ \E p \in TuiClients : TuiStart(p)
    \/ \E p \in Peers : ConnOpen(p, Cardinality(ClientIds)) /\ Relayed
    \/ \E k \in ConnIds : HandleClientConnect(k) /\ Relayed
    \/ \E p \in TuiClients : TuiRecv(p)
    \/ \E p \in TuiClients, text \in UserTexts : TuiSubmit(p, text)
    \/ \E p \in TuiClients : TuiLock(p)
    \/ \E p \in TuiClients, i \in 1..MaxCalls : StreamText(p, i)
    \/ \E p \in TuiClients, i \in 1..MaxCalls : StreamFinal(p, i)
    \/ \E k \in ConnIds : PeerConn(k) /\ HandleLockRequest(k) /\ Relayed
    \/ \E k \in ConnIds : PeerConn(k) /\ HandleLockRelease(k) /\ Relayed

SpecDefer == Init /\ [][NextDefer]_vars

\* C23: when a client has handled the lock.denied that answers its request,
\* its deferred-input slot is empty, so that a later lock.granted does not
\* send the input deferred before the denial.
C23_DenialClearsDeferred ==
    \A p \in TuiClients :
        ev.type = "on:lock.denied" /\ ev.clientId = p => pendingInput[p] = NULL


-----------------------------------------------------------------------------
(* WebSocketClient: reconnecting after a lost connection (SpecReconnect) *)

MaxRetries == 12

reconnectDelay == 2000

RECURSIVE Pow2(_)
Pow2(n) == IF n = 0 THEN 1 ELSE 2 * Pow2(n - 1)

\* attemptReconnect: Math.min(this.reconnectDelay * Math.pow(2, this.reconnectAttempts - 1), 30000)
backoffDelay(n) ==
    IF reconnectDelay * Pow2(n - 1) < 30000
    THEN reconnectDelay * Pow2(n - 1)
    ELSE 30000

\* ws.on('close'): attemptReconnect while attempts remain, reconnect_failed
\* otherwise; what the client emits is appended to its trace
onClose(p, attempts) ==
    IF attempts < maxReconnectAttempts
    THEN [attempts |-> attempts + 1,
          sent |-> Append(sent[p], [type |-> "reconnecting",
                                    attempt |-> attempts + 1,
                                    delay |-> backoffDelay(attempts + 1)])]
    ELSE [attempts |-> attempts,
          sent |-> Append(sent[p], [type |-> "reconnect_failed",
                                    attempt |-> attempts, delay |-> 0])]

\* the timer of attemptReconnect is pending
RetryPending(p) ==
    /\ phase[p] = "ready"
    /\ cur[p] = 0
    /\ sent[p] # <<>>
    /\ sent[p][Len(sent[p])].type = "reconnecting"

\* the socket of an admitted client closes
WsLost(p) ==
    /\ phase[p] = "ready"
    /\ inbox[p] = <<>>
    /\ Len(sent[p]) < MaxRetries
    /\ ClientDrop(p)
    /\ LET r == onClose(p, reconnectAttempts[p])
       IN  /\ reconnectAttempts' = [reconnectAttempts EXCEPT ![p] = r.attempts]
           /\ sent' = [sent EXCEPT ![p] = r.sent]
    /\ UNCHANGED <<hasLock, pendingInput, initialSyncDone, conversation, phase,
                   resync, inbox, calls, repVars>>

\* the timer fires and connect() fails: the new socket never opens and
\* emits error and close
RetryRefused(p) ==
    /\ RetryPending(p)
    /\ Len(sent[p]) < MaxRetries
    /\ LET r == onClose(p, reconnectAttempts[p])
       IN  /\ reconnectAttempts' = [reconnectAttempts EXCEPT ![p] = r.attempts]
           /\ sent' = [sent EXCEPT ![p] = r.sent]
    /\ ev' = Event("retry.refused", 0, SessionOf(p), p)
    /\ out' = <<>>
    /\ UNCHANGED <<sessions, netVars, timeVars, dbVars>>
    /\ UNCHANGED <<hasLock, pendingInput, initialSyncDone, conversation, phase,
                   resync, inbox, calls, repVars>>

\* the timer fires, the new socket opens (the open handler resets the
\* attempts and sends client.connect) and closes before the relay has read
\* anything from it: the relay's close handler finds no registration and
\* changes nothing
RetryDropped(p) ==
    /\ RetryPending(p)
    /\ Len(sent[p]) < MaxRetries
    /\ LET r == onClose(p, 0)
       IN  /\ reconnectAttempts' = [reconnectAttempts EXCEPT ![p] = r.attempts]
           /\ sent' = [sent EXCEPT ![p] = r.sent]
    /\ ev' = Event("retry.dropped", 0, SessionOf(p), p)
    /\ out' = <<>>
    /\ UNCHANGED <<sessions, netVars, timeVars, dbVars>>
    /\ UNCHANGED <<hasLock, pendingInput, initialSyncDone, conversation, phase,
                   resync, inbox, calls, repVars>>

NextReconnect ==
    \/ \E p \in TuiClients : TuiStart(p)
    \/ \E k \in ConnIds : HandleClientConnect(k) /\ Relayed
    \/ \E p \in TuiClients : TuiRecv(p)
    \/ \E p \in TuiClients : WsLost(p)
    \/ \E p \in TuiClients : RetryRefused(p)
    \/ \E p \in TuiClients : RetryDropped(p)
    \/ \E k \in ConnIds : WsClose(k) /\ Relayed

SpecReconnect == Init /\ [][NextReconnect]_vars

Attempts(p) == {i \in DOMAIN sent[p] : sent[p][i].type = "reconnecting"}

\* C24: while the client is not admitted again, it makes at most
\* maxReconnectAttempts reconnect attempts (in SpecReconnect the client is
\* admitted once, so every attempt of its trace belongs to one such run)
C24_AttemptsBounded ==
    \A p \in TuiClients : Cardinality(Attempts(p)) <= maxReconnectAttempts


-----------------------------------------------------------------------------
(* Claims about publishing conversation events *)

\* The step handles a conversation event of the lock holder, which the relay
\* accepts
AcceptedPublish ==
    /\ ev'.type \in {"user.message", "assistant.chunk", "assistant.complete"}
    /\ HasSession(ev'.sessionId)
    /\ sessions[ev'.sessionId].lockHolder = ev'.clientId

PublishedAs(type) ==
    CASE type = "user.message" -> "user.message.broadcast"
      [] type = "assistant.chunk" -> "assistant.streaming"
      [] type = "assistant.complete" -> "assistant.complete.broadcast"

\* How many messages of the given type the handler sent on socket k
Copies(o, k, type) ==
    Cardinality({i \in 1..Len(o) : o[i].to = k /\ o[i].msg.type = type})

\* Participant q is connected to session sid: its socket is open and the
\* relay has admitted it on that socket
ConnectedTo(q, sid) ==
    /\ cur[q] # 0
    /\ Registered(cur[q])
    /\ conns[cur[q]].clientId = q
    /\ conns[cur[q]].sessionId = sid

\* C25: an accepted user-message, assistant-delta or assistant-complete event
\* is sent exactly once to every connected participant of the session other
\* than its originator and never to the originator's socket.
C25_PublishOnceToOthers ==
    [][ AcceptedPublish
        => /\ \A q \in ClientIds \ {ev'.clientId} :
                  ConnectedTo(q, ev'.sessionId)
                  => Copies(out', cur[q], PublishedAs(ev'.type)) = 1
           /\ Copies(out', ev'.conn, PublishedAs(ev'.type)) = 0 ]_vars


-----------------------------------------------------------------------------
(* Claims about roster notifications *)

\* The step removes a participant that the roster of its session holds
RemovalStep ==
    /\ ev'.type = "close"
    /\ ev'.clientId # NULL
    /\ HasSession(ev'.sessionId)
    /\ \E i \in 1..Len(sessions[ev'.sessionId].clients) :
           sessions[ev'.sessionId].clients[i].clientId = ev'.clientId

\* C26: admitting a participant sends participant.joined once to every other
\* connected participant of the session, and the admitted socket receives
\* connected and nothing else; removing a participant of the roster sends
\* participant.left once to every other connected participant.
C26_RosterNotifications ==
    [][ /\ ev'.type = "client.connect"
           => /\ \A q \in ClientIds \ {ev'.clientId} :
                     ConnectedTo(q, ev'.sessionId)
                     => Copies(out', cur[q], "participant.joined") = 1
              /\ Copies(out', ev'.conn, "connected") = 1
              /\ Cardinality({i \in 1..Len(out') : out'[i].to = ev'.conn}) = 1
        /\ RemovalStep
           => \A q \in ClientIds \ {ev'.clientId} :
                  ConnectedTo(q, ev'.sessionId)
                  => Copies(out', cur[q], "participant.left") = 1 ]_vars


-----------------------------------------------------------------------------
(* Claims about the order of events *)

(* One TUI client that listens while a peer joins, takes turns and leaves *)

NextOrder ==
    \/ \E p \in TuiClients : TuiStart(p)
    \/ \E p \in Peers : ConnOpen(p, Cardinality(ClientIds)) /\ Relayed
    \/ \E k \in ConnIds : HandleClientConnect(k) /\ Relayed
    \/ \E p \in TuiClients : TuiRecv(p)
    \/ \E p \in Peers : ClientDrop(p) /\ Relayed
    \/ \E k \in ConnIds : WsClose(k) /\ Relayed
    \/ \E k \in ConnIds : PeerConn(k) /\ HandleLockRequest(k) /\ Relayed
    \/ \E k \in ConnIds : PeerConn(k) /\ HandleLockRelease(k) /\ Relayed
    \/ \E k \in ConnIds, text \in LogTexts : PeerConn(k) /\ HandleUserMessage(k, text) /\ Relayed
    \/ \E k \in ConnIds, c \in AssistantContents :
          PeerConn(k) /\ HandleAssistantComplete(k, c) /\ Relayed

SpecOrder == Init /\ [][NextOrder]_vars

\* The entries of the session as sync returns them are in the order in which
\* the relay accepted them (saveMessage numbers the rows in that order)
LogInAcceptanceOrder(sid) ==
    LET h == getMessages(messages, sid)
    IN  \A i, j \in 1..Len(h) : i < j => h[i].id < h[j].id

\* On a socket that stays the client's socket the messages not yet handled
\* keep their order, the client handles the oldest one, and what the step
\* sends to the socket arrives behind them in the order of the sends
FifoStep(q) ==
    (cur[q] # 0 /\ cur'[q] = cur[q] /\ inbox'[q] # inbox[q])
    => \/ inbox'[q] = inbox[q] \o Inbound(out', cur[q])
       \/ /\ inbox[q] # <<>>
          /\ ev'.type = "on:" \o Head(inbox[q]).type
          /\ ev'.clientId = q
          /\ inbox'[q] = Tail(inbox[q]) \o Inbound(out', cur[q])

-----------------------------------------------------------------------------
(* Claims about requesting the lock again *)

\* The lock of session sid has a holder after the step that it did not have
\* before it
HolderBecomes(sid) ==
    /\ sid \in DOMAIN sessions'
    /\ sessions'[sid].lockHolder # NULL
    /\ \/ ~HasSession(sid)
       \/ sessions[sid].lockHolder # sessions'[sid].lockHolder

\* C28: a participant becomes the holder of a session's lock only in the step
\* that handles its own lock.request for that session; no release, timeout,
\* disconnect or other step hands the lock to anyone.
C28_GrantOnlyOnRequest ==
    [][ \A sid \in SessionIds :
            HolderBecomes(sid)
            => /\ ev'.type = "lock.request"
               /\ ev'.sessionId = sid
               /\ ev'.clientId = sessions'[sid].lockHolder ]_vars

\* a second participant is granted the lock that an earlier holder has lost
C28_Witness ==
    /\ ev.type = "lock.request"
    /\ HasSession(ev.sessionId)
    /\ sessions[ev.sessionId].lockHolder = ev.clientId
    /\ sessions[ev.sessionId].lockGrantedAt > ServerStart
    /\ Len(sessions[ev.sessionId].clients) = 2


-----------------------------------------------------------------------------
(* Claims about removing a participant *)

\* The step handles the close of a socket that registered a participant
CloseStep == ev'.type = "close" /\ ev'.clientId # NULL

\* C29: the close of a participant that its session's roster does not hold,
\* or whose session does not exist, changes no session (roster and lock stay
\* as they were) and sends nothing; after any close, handling the same
\* removal once more changes nothing and sends nothing.
C29_AbsentRemovalNoOp ==
    [][ CloseStep
        => /\ ~RemovalStep => (sessions' = sessions /\ out' = <<>>)
           /\ handleClientDisconnect(conns', sessions', ev'.sessionId, ev'.clientId)
                  = [s |-> sessions', o |-> <<>>] ]_vars

\* the close of a holder that the roster no longer holds has been handled:
\* the session is as it was, with its lock still Held by that participant
C29_Witness ==
    /\ ev.type = "close"
    /\ HasSession(ev.sessionId)
    /\ ~MapHas(sessions[ev.sessionId].clients, ev.clientId)
    /\ sessions[ev.sessionId].lockHolder = ev.clientId
    /\ out = <<>>


-----------------------------------------------------------------------------
(* Claims about the blocks the repairer keeps (SpecRepair) *)

BlockSet(blocks) == {blocks[j] : j \in 1..Len(blocks)}

\* The blocks of user entry msg that the claim keeps behind assistant entry
\* prev: every block that is not a tool-result and every tool-result whose
\* id prev invokes
KeptBlocks(prev, msg) ==
    {blk \in BlockSet(msg.content.b) :
        blk.type # "tool_result" \/ blk.id \in ToolUseIdSet(prev)}

\* C30: a user entry with tool-result blocks whose predecessor in the
\* repaired sequence is an assistant entry loses exactly the tool-result
\* blocks whose id that assistant entry does not invoke, and is dropped only
\* when no block remains.
C30_OnlyUnmatchedRemoved ==
    Repaired =>
        \A n \in 1..Len(rin) :
            LET before == validateToolMessages(SubSeq(rin, 1, n - 1))
                after == validateToolMessages(SubSeq(rin, 1, n))
                msg == rin[n]
            IN  (/\ msg.role = "user"
                 /\ IsArray(msg.content)
                 /\ FilterType(msg.content.b, "tool_result") # <<>>
                 /\ before # <<>>
                 /\ before[Len(before)].role = "assistant")
                => LET kept == KeptBlocks(before[Len(before)], msg)
                   IN  IF kept = {}
                       THEN after = before
                       ELSE /\ Len(after) = Len(before) + 1
                            /\ SubSeq(after, 1, Len(before)) = before
                            /\ after[Len(after)].role = "user"
                            /\ IsArray(after[Len(after)].content)
                            /\ BlockSet(after[Len(after)].content.b) = kept
                            /\ Len(after[Len(after)].content.b) = Cardinality(kept)


-----------------------------------------------------------------------------
(* Claims about the predecessor the repairer looks at (SpecRepair) *)

HasToolResults(msg) ==
    /\ msg.role = "user"
    /\ IsArray(msg.content)
    /\ FilterType(msg.content.b, "tool_result") # <<>>

InvokesA == [role |-> "assistant", content |-> Arr(<<ToolUse("A")>>)]
ResultsOf(id) == [role |-> "user", content |-> Arr(<<ToolResult(id)>>)]

\* C31: a user entry with tool-result blocks is kept only when the last entry
\* of the sequence repaired so far is an assistant entry, whatever its raw
\* predecessor is: after assistant(invokes A), user(result C), user(result A)
\* the second entry is dropped and the third kept, and a tool-result entry that
\* follows a kept tool-result entry is dropped.
C31_PredecessorInRepaired ==
    Repaired =>
        /\ \A n \in 1..Len(rin) :
              LET before == validateToolMessages(SubSeq(rin, 1, n - 1))
                  after == validateToolMessages(SubSeq(rin, 1, n))
              IN  HasToolResults(rin[n])
                  => /\ (before = <<>> \/ before[Len(before)].role # "assistant")
                            => after = before
                     /\ after # before
                            => /\ before[Len(before)].role = "assistant"
                               /\ ResultIds(after, Len(after))
                                      \subseteq ToolUseIdSet(before[Len(before)])
        /\ rin = <<InvokesA, ResultsOf("C"), ResultsOf("A")>>
              => rout = <<InvokesA, ResultsOf("A")>>
        /\ \A n \in 2..Len(rin) :
              LET before == validateToolMessages(SubSeq(rin, 1, n - 1))
              IN  (/\ HasToolResults(rin[n - 1])
                   /\ HasToolResults(rin[n])
                   /\ before # validateToolMessages(SubSeq(rin, 1, n - 2)))
                  => validateToolMessages(SubSeq(rin, 1, n)) = before

\* the example of the claim has been repaired
C31_Witness ==
    /\ Repaired
    /\ rin = <<InvokesA, ResultsOf("C"), ResultsOf("A")>>
    /\ rout = <<InvokesA, ResultsOf("A")>>


-----------------------------------------------------------------------------
(* Claims about the repaired sequence as a subsequence (SpecRepair) *)

\* The i-th smallest index of the index set K
NthOf(K, i) == CHOOSE n \in K : Cardinality({m \in K : m < n}) = i - 1

\* K is the set of the input positions that the entries of the output come
\* from, in order: roles agree, an entry without tool-result blocks is the
\* input entry itself, and an entry with tool-result blocks holds blocks of
\* the input entry only
ComesFrom(input, output, K) ==
    /\ Cardinality(K) = Len(output)
    /\ \A i \in 1..Len(output) :
          LET n == NthOf(K, i)
          IN  /\ output[i].role = input[n].role
              /\ IF HasToolResults(input[n])
                 THEN /\ IsArray(output[i].content)
                      /\ BlockSet(output[i].content.b)
                             \subseteq BlockSet(input[n].content.b)
                 ELSE output[i] = input[n]

\* C32: the repaired sequence is a subsequence of the input in the input's
\* order; every assistant entry and every user entry without tool-result
\* blocks is in it unchanged, and no entry changes its role.
C32_OrderPreservingSubsequence ==
    Repaired =>
        \E K \in SUBSET (1..Len(rin)) :
            /\ {n \in 1..Len(rin) : ~HasToolResults(rin[n])} \subseteq K
            /\ ComesFrom(rin, rout, K)

\* a sequence of full length was repaired with an entry dropped between two
\* entries that were kept
C32_Witness ==
    /\ Repaired
    /\ Len(rin) = MaxEntries
    /\ Len(rout) = MaxEntries - 1
    /\ HasToolResults(rin[2])
    /\ rout = <<rin[1], rin[3]>>
    /\ rin[1] # rin[3]


-----------------------------------------------------------------------------
(* Claims about the log as sync returns it *)

IsPrefixOf(s, t) == Len(s) <= Len(t) /\ SubSeq(t, 1, Len(s)) = s

\* C33: a sync.state carries the session's entries as getMessages returns
\* them, and in every step the entry sequence of every session before the
\* step is a prefix of the one after it; so of two sync responses for a
\* session the earlier one is a prefix of the later one.
C33_LogAppendOnly ==
    /\ [](SyncAnswered =>
            out[1].msg.messages = getMessages(messages, ev.sessionId))
    /\ [][ messages' # messages
           => \A sid \in SessionIds :
                  IsPrefixOf(getMessages(messages, sid), getMessages(messages', sid)) ]_vars

\* a sync is answered with a log that grew by entries of both roles
C33_Witness ==
    /\ SyncAnswered
    /\ Len(out[1].msg.messages) = MaxLog
    /\ out[1].msg.messages[1].role = "user"
    /\ out[1].msg.messages[MaxLog].role = "assistant"


-----------------------------------------------------------------------------
(* WebSocketClient.disconnect (SpecDisconnect) *)

Note(type) == [type |-> type, attempt |-> 0, delay |-> 0]

\* disconnect() has been called
Disconnected(p) == \E i \in DOMAIN sent[p] : sent[p][i].type = "disconnect"

\* disconnect() on a client whose socket is open: the attempts are set to the
\* maximum and the socket is closed; its close handler finds no attempt left
\* and emits reconnect_failed
DisconnectOpen(p) ==
    /\ phase[p] = "ready"
    /\ ~Disconnected(p)
    /\ Len(sent[p]) + 2 <= MaxRetries
    /\ ClientDrop(p)
    /\ reconnectAttempts' = [reconnectAttempts EXCEPT ![p] = maxReconnectAttempts]
    /\ sent' = [sent EXCEPT ![p] =
                   Append(Append(@, Note("disconnect")),
                          [type |-> "reconnect_failed",
                           attempt |-> maxReconnectAttempts, delay |-> 0])]
    /\ inbox' = [inbox EXCEPT ![p] = <<>>]
    /\ UNCHANGED <<hasLock, pendingInput, initialSyncDone, conversation, phase,
                   resync, calls, repVars>>

\* disconnect() while the timer of attemptReconnect is pending: this.ws is the
\* closed socket, so the attempts are set to the maximum, close() does
\* nothing and this.ws becomes null; the timer is not cancelled
DisconnectWaiting(p) ==
    /\ RetryPending(p)
    /\ ~Disconnected(p)
    /\ Len(sent[p]) + 2 <= MaxRetries
    /\ reconnectAttempts' = [reconnectAttempts EXCEPT ![p] = maxReconnectAttempts]
    /\ sent' = [sent EXCEPT ![p] = Append(@, Note("disconnect"))]
    /\ ev' = Event("disconnect", 0, SessionOf(p), p)
    /\ out' = <<>>
    /\ UNCHANGED <<sessions, netVars, timeVars, dbVars>>
    /\ UNCHANGED <<hasLock, pendingInput, initialSyncDone, conversation, phase,
                   resync, inbox, calls, repVars>>

\* the timer of attemptReconnect that was pending when disconnect() was
\* called
TimerAfterDisconnect(p) ==
    /\ phase[p] = "ready"
    /\ cur[p] = 0
    /\ Len(sent[p]) >= 2
    /\ sent[p][Len(sent[p])].type = "disconnect"
    /\ sent[p][Len(sent[p]) - 1].type = "reconnecting"

\* the timer fires and connect() opens a new socket: the open handler resets
\* the attempts and sends client.connect
LateRetryOpens(p) ==
    /\ TimerAfterDisconnect(p)
    /\ ConnOpen(p, MaxConns)
    /\ reconnectAttempts' = [reconnectAttempts EXCEPT ![p] = 0]
    /\ sent' = [sent EXCEPT ![p] = Append(@, Note("open"))]
    /\ UNCHANGED <<hasLock, pendingInput, initialSyncDone, conversation, phase,
                   resync, inbox, calls, repVars>>

\* the timer fires and connect() fails: the close handler finds no attempt
\* left and emits reconnect_failed
LateRetryRefused(p) ==
    /\ TimerAfterDisconnect(p)
    /\ sent' = [sent EXCEPT ![p] = onClose(p, reconnectAttempts[p]).sent]
    /\ ev' = Event("retry.refused", 0, SessionOf(p), p)
    /\ out' = <<>>
    /\ UNCHANGED <<sessions, netVars, timeVars, dbVars>>
    /\ UNCHANGED <<hasLock, pendingInput, initialSyncDone, conversation, phase,
                   reconnectAttempts, resync, inbox, calls, repVars>>

NextDisconnect ==
    \/ \E p \in TuiClients : TuiStart(p)
    \/ \E k \in ConnIds : HandleClientConnect(k) /\ Relayed
    \/ \E p \in TuiClients : TuiRecv(p)
    \/ \E p \in TuiClients : WsLost(p)
    \/ \E p \in TuiClients : RetryRefused(p)
    \/ \E p \in TuiClients : RetryDropped(p)
    \/ \E p \in TuiClients : DisconnectOpen(p)
    \/ \E p \in TuiClients : DisconnectWaiting(p)
    \/ \E p \in TuiClients : LateRetryOpens(p)
    \/ \E p \in TuiClients : LateRetryRefused(p)
    \/ \E k \in ConnIds : WsClose(k) /\ Relayed

SpecDisconnect == Init /\ [][NextDisconnect]_vars

\* C34: after disconnect() has been called the client has no open connection
\* and the relay handles no client.connect of it.
C34_DisconnectIsFinal ==
    \A p \in TuiClients :
        Disconnected(p)
        => /\ cur[p] = 0
           /\ ~(ev.type = "client.connect" /\ ev.clientId = p)


-----------------------------------------------------------------------------
(* Claims about reconnecting under the same participant id *)

\* The step handles the close of an earlier socket of a participant whose
\* roster entry already belongs to its new, open socket
LateCloseStep ==
    /\ CloseStep
    /\ HasSession(ev'.sessionId)
    /\ MapHas(sessions[ev'.sessionId].clients, ev'.clientId)
    /\ LET entry == MapGet(sessions[ev'.sessionId].clients, ev'.clientId)
       IN  /\ entry.ws # ev'.conn
           /\ ReadyOpen(conns, entry.ws)
           /\ cur[ev'.clientId] = entry.ws

\* C35: the late close of a participant's previous socket leaves the roster
\* entry of its new socket in place, leaves the lock as it was and leaves the
\* session in the registry.
C35_LateCloseKeepsNewEntry ==
    [][ LateCloseStep
        => /\ ev'.sessionId \in DOMAIN sessions'
           /\ MapHas(sessions'[ev'.sessionId].clients, ev'.clientId)
           /\ MapGet(sessions'[ev'.sessionId].clients, ev'.clientId)
                  = MapGet(sessions[ev'.sessionId].clients, ev'.clientId)
           /\ sessions'[ev'.sessionId].lockHolder
                  = sessions[ev'.sessionId].lockHolder ]_vars


-----------------------------------------------------------------------------
(* One TUI client that takes the lock with /lock, loses its connection and *)
(* reconnects, next to a peer (SpecBelief)                                 *)

NextBelief ==
    \/ \E p \in TuiClients : TuiStart(p)
    \/ \E p \in Peers : ConnOpen(p, MaxConns) /\ Relayed
    \/ \E k \in ConnIds : HandleClientConnect(k) /\ Relayed
    \/ \E p \in TuiClients : TuiRecv(p)
    \/ \E p \in TuiClients : TuiLock(p)
    \/ \E p \in TuiClients : TuiClose(p)
    \/ \E p \in TuiClients : TuiReconnect(p)
    \/ \E k \in ConnIds : WsClose(k) /\ Relayed
    \/ \E k \in ConnIds : PeerConn(k) /\ HandleLockRequest(k) /\ Relayed
    \/ \E k \in ConnIds : PeerConn(k) /\ HandleLockRelease(k) /\ Relayed

SpecBelief == Init /\ [][NextBelief]_vars

\* Client p is connected and admitted, has handled everything it received
\* and has no sync outstanding: no message to or from it is in flight
Settled(p) ==
    /\ phase[p] = "ready"
    /\ isConnected(p)
    /\ inbox[p] = <<>>
    /\ ~resync[p]

\* The relay has handled the close of every earlier socket of p, and the
\* roster of p's session holds p with its current socket
CleanlyRejoined(p) ==
    /\ HasSession(SessionOf(p))
    /\ MapHas(sessions[SessionOf(p)].clients, p)
    /\ MapGet(sessions[SessionOf(p)].clients, p).ws = cur[p]
    /\ \A k \in ConnIds : (conns[k].owner = p /\ k # cur[p]) => conns[k].st = "closed"

\* C36: a client that is connected with no message in flight and whose
\* hasLock flag is true is the holder of its session's lock at the relay
\* (stated here for clients whose earlier sockets the relay has closed and
\* whose roster entry is their current socket).
C36_BeliefAgrees ==
    \A p \in TuiClients :
        (hasLock[p] /\ Settled(p) /\ CleanlyRejoined(p))
        => sessions[SessionOf(p)].lockHolder = p


-----------------------------------------------------------------------------
(* C37: one model request at a time *)

\* The model requests of p whose stream has not delivered its final message
InFlight(p) == {i \in 1..Len(calls[p]) : calls[p][i].st = "streaming"}

\* C37: a client never has two model requests in flight: a request is
\* started only after the client's previous streamed response has delivered
\* its final message.
C37_OneRequestInFlight ==
    \A p \in TuiClients : Cardinality(InFlight(p)) <= 1


-----------------------------------------------------------------------------
(* C38: the order of the blocks of a kept user entry (SpecRepair) *)

\* C38: when the repairer keeps a user entry that holds tool-result blocks,
\* the blocks of the kept entry stand in the order they have in the input
\* entry: the kept content is the input content with some blocks deleted.
C38_BlocksKeepOrder ==
    Repaired =>
        \A n \in 1..Len(rin) :
            LET before == validateToolMessages(SubSeq(rin, 1, n - 1))
                after == validateToolMessages(SubSeq(rin, 1, n))
                msg == rin[n]
            IN  (HasToolResults(msg) /\ Len(after) = Len(before) + 1)
                => LET kept == after[Len(after)].content.b
                   IN  kept = SelectSeq(msg.content.b,
                                        LAMBDA blk : blk \in BlockSet(kept))


-----------------------------------------------------------------------------
(* C39: the repairer applied to its own output (SpecRepair) *)

\* C39: the repairer is idempotent: repairing the repaired sequence yields
\* the repaired sequence again.
C39_Idempotent ==
    Repaired => validateToolMessages(rout) = rout

\* the repairer changed its input, and repairing the result changes nothing
C39_Witness ==
    /\ Repaired
    /\ rout # rin
    /\ rout # <<>>
    /\ \E i \in 1..Len(rout) : HasToolResults(rout[i])
    /\ validateToolMessages(rout) = rout


-----------------------------------------------------------------------------
(* C40: tool.execute and tool.result (relay.ts handleToolExecute,            *)
(* handleToolResult), with participants that drop and reconnect             *)

NextTool ==
    \/ \E p \in ClientIds : ConnOpen(p, MaxConns) /\ UNCHANGED clientVars
    \/ \E p \in ClientIds : ClientDrop(p) /\ UNCHANGED clientVars
    \/ \E k \in ConnIds : HandleClientConnect(k) /\ UNCHANGED clientVars
    \/ \E k \in ConnIds : HandleLockRequest(k) /\ UNCHANGED clientVars
    \/ \E k \in ConnIds, id \in ToolUseIds : HandleToolExecute(k, id) /\ UNCHANGED clientVars
    \/ \E k \in ConnIds, id \in ToolUseIds : HandleToolResult(k, id) /\ UNCHANGED clientVars
    \/ \E k \in ConnIds : WsClose(k) /\ UNCHANGED clientVars

SpecTool == Init /\ [][NextTool]_vars

\* The step handles a tool message for a session of the registry
ToolStep ==
    /\ ev'.type \in {"tool.execute", "tool.result"}
    /\ HasSession(ev'.sessionId)

ToolRelayedAs(type) ==
    IF type = "tool.execute" THEN "tool.executing" ELSE "tool.result.broadcast"

\* C40: a tool.execute or tool.result message for an existing session is
\* sent once to every connected participant of the session, the sender
\* included, whoever holds the lock; tool.result adds one tool-result record
\* and tool.execute none; the registry (locks and rosters) and the
\* conversation-entry log stay as they are.
C40_ToolRelay ==
    [][ ToolStep
        => /\ \A q \in ClientIds :
                  ConnectedTo(q, ev'.sessionId)
                  => Copies(out', cur[q], ToolRelayedAs(ev'.type)) = 1
           /\ ev'.type = "tool.result"
                  => /\ Len(tool_results') = Len(tool_results) + 1
                     /\ SubSeq(tool_results', 1, Len(tool_results)) = tool_results
                     /\ tool_results'[Len(tool_results')].session_id = ev'.sessionId
                     /\ tool_results'[Len(tool_results')].client_id = ev'.clientId
           /\ ev'.type = "tool.execute" => tool_results' = tool_results
           /\ sessions' = sessions
           /\ messages' = messages ]_vars

====
